---- MODULE Spec2Model ----
(***************************************************************************)
(* Model of the SISR image-sequence renderer (timelapsetech/sisr).         *)
(*                                                                         *)
(* The repository holds two implementations of create_video_with_overlay:  *)
(*   - sisr/core.py      (used by sisr/__main__.py and sisr/gui.py)        *)
(*   - sisr/__init__.py  (the package-level function, used by the          *)
(*                        package's own main())                            *)
(* Both are modelled, together with the two command-line front ends and    *)
(* the GUI handlers that call them.                                        *)
(*                                                                         *)
(* Representation                                                          *)
(*   - Python None is the string "None"; a value is truthy when it is      *)
(*     neither "None" nor the empty string.                                *)
(*   - A file name is a record [dir, stem, ext]; stem is the sequence of   *)
(*     the '_'-separated words of the name, so that '_'.join is the        *)
(*     concatenation of word sequences.                                    *)
(*   - A filter graph is the sequence of its ';'-separated stages; a       *)
(*     stage is a record of the input label, the filter, its parameters    *)
(*     and the output label.                                               *)
(*   - An encoder command is a record of the segments of the argument      *)
(*     list, in the order in which the code appends them.                  *)
(***************************************************************************)
EXTENDS Integers, Sequences, FiniteSets, TLC

VARIABLES
    args,       \* the arguments of the direct calls of create_video_with_overlay
    fs,         \* file system: temporary directories, their files, output directories
    atexit,     \* temporary directories whose cleanup is registered with atexit
    alive,      \* the Python process is running
    ncalls,     \* number of render calls made so far in this process
    last,       \* record of the most recent render call
    prev,       \* record of the render call before it
    cli,        \* command-line run: argv, discovered directories, exit code
    gui,        \* GUI: widget variables, widget states, worker, Tk callback queue
    pbar,       \* the progress bar of the read loop of sisr.create_video_with_overlay
    parsed,     \* a call of parse_resolution: its argument and its outcome
    prefs       \* the preference file and the calls of save_prefs / load_prefs

vars == <<args, fs, atexit, alive, ncalls, last, prev, cli, gui, pbar, parsed, prefs>>

\* the state of the read loop and of the helper functions, which the render
\* calls and the front ends leave alone
helpers == <<pbar, parsed, prefs>>

---------------------------------------------------------------------------
(* Bounds *)

MaxFrames == 3
MaxCalls == 2
NumTempNames == 2

---------------------------------------------------------------------------
(* Python values *)

None == "None"

Truthy(v) == v # None /\ v # ""

Min(a, b) == IF a <= b THEN a ELSE b

\* an optional integer (an argparse int option, an entry field read as int)
Some(n) == [set |-> TRUE, v |-> n]
Absent == [set |-> FALSE, v |-> 0]

\* truth value of an optional integer: None and 0 are false
TruthyInt(o) == o.set /\ o.v # 0

\* str.split('_') of the option tokens used in file names
Words(tok) ==
    CASE tok = "instagram"       -> <<"instagram">>
      [] tok = "hd_center"       -> <<"hd", "center">>
      [] tok = "hd_keep_top"     -> <<"hd", "keep", "top">>
      [] tok = "hd_keep_bottom"  -> <<"hd", "keep", "bottom">>
      [] tok = "uhd_center"      -> <<"uhd", "center">>
      [] tok = "uhd_keep_top"    -> <<"uhd", "keep", "top">>
      [] tok = "uhd_keep_bottom" -> <<"uhd", "keep", "bottom">>
      [] tok = "hd_keep-top"     -> <<"hd", "keep-top">>
      [] tok = "hd_keep-bottom"  -> <<"hd", "keep-bottom">>
      [] tok = "uhd_keep-top"    -> <<"uhd", "keep-top">>
      [] tok = "uhd_keep-bottom" -> <<"uhd", "keep-bottom">>
      [] OTHER                   -> <<tok>>

RECURSIVE Join(_)
\* '_'.join(tokens), as a word sequence
Join(tokens) ==
    IF tokens = <<>> THEN <<>> ELSE Words(Head(tokens)) \o Join(Tail(tokens))

HdModes == {"hd_center", "hd_keep_top", "hd_keep_bottom"}
UhdModes == {"uhd_center", "uhd_keep_top", "uhd_keep_bottom"}
CropModes == {"instagram"} \cup HdModes \cup UhdModes
OverlayModes == {"date", "frame"}
Qualities == {"default", "prores", "proreshq", "gif"}

\* crop_type.startswith("hd_") / crop_type.startswith("uhd_")
StartsWithHd(crop_type) == crop_type \in HdModes
StartsWithUhd(crop_type) == crop_type \in UhdModes

---------------------------------------------------------------------------
(* Files, labels, stages, commands *)

File(dir, stem, ext) == [dir |-> dir, stem |-> stem, ext |-> ext]

NoFile == File("", <<>>, "")

\* a temporary text resource: <dir>/<stem>_<idx zero-padded to pad>.txt
TextFile(dir, stem, idx, pad) == [dir |-> dir, stem |-> stem, idx |-> idx, pad |-> pad]

\* a temporary directory made by tempfile.mkdtemp: <parent>/tmp<id>
TmpDir(parent, id) == [parent |-> parent, id |-> id]

NoDir == TmpDir("", 0)

NoTextFile == TextFile(NoDir, "", -1, 0)

\* what a text resource holds: a text, or a text followed by a number
Content(text, n) == [text |-> text, n |-> n]

Written(file, content) == [file |-> file, content |-> content]

Label(name, idx) == [name |-> name, idx |-> idx]

RawInput == Label("0:v", -1)
VCropped == Label("v_cropped", -1)
VOut == Label("v_out", -1)
NoLabel == Label("", -1)

Stage(src, op, p, textfile, text, enable, out) ==
    [src |-> src, op |-> op, p |-> p, textfile |-> textfile, text |-> text,
     enable |-> enable, out |-> out]

\* the input of the encoder: a numbered pattern or a concat list
NoInput == [kind |-> "", dir |-> "", prefix |-> "", pad |-> 0, ext |-> ""]

NoCmd ==
    [framerate |-> 0, input |-> NoInput, filter |-> <<>>, map |-> "",
     codec |-> <<>>, rate |-> 0, output |-> NoFile]

\* the image file of frame i: <dir>/<prefix>_<i zero-padded to pad><ext>
FramePath(i) ==
    [dir |-> "in", prefix |-> "img", sep |-> "_", num |-> i, pad |-> 4, ext |-> ".jpg"]

\* the platform's font, as get_system_font returns it
FontPath == "DejaVuSansMono.ttf"

\* len(str(n)) for the frame counts of the model
RECURSIVE NumDigits(_)
NumDigits(n) == IF n < 10 THEN 1 ELSE 1 + NumDigits(n \div 10)

---------------------------------------------------------------------------
(* sisr/core.py: create_video_with_overlay *)

CoreParams ==
    {"image_date_files", "output_file", "fps", "crop_type", "overlay_type", "quality"}

\* a frame rate that is neither an int nor a float (a string, None): the model
\* keeps it apart from the numbers by this value
NotANumber == -1000

\* the frame-rate check that lets a frame rate of 0 through
FpsRejected_ZeroAccepted(fps) == fps = NotANumber \/ fps < 0

\* not isinstance(fps, (int, float)) or fps <= 0
FpsRejected(fps) == fps = NotANumber \/ fps <= 0

HdTargetWidth == 1920
HdTargetHeight == 1080
UhdTargetWidth == 3840
UhdTargetHeight == 2160

Geometry(width, height, x, y) == [width |-> width, height |-> height, x |-> x, y |-> y]

\* the branch shared by the hd_ and uhd_ families; keep_top and keep_bottom
\* are the two strings the branch compares crop_type with
CoreWideCrop(crop_type, keep_top, keep_bottom, tw, th, width, height) ==
    IF width * th > height * tw
    THEN \* image is wider than 16:9
         LET new_width == (height * tw) \div th
             y == IF crop_type = keep_top THEN 0
                  ELSE IF crop_type = keep_bottom THEN height - th
                  ELSE (height - th) \div 2
         IN  Geometry(new_width, height, (width - new_width) \div 2, y)
    ELSE \* image is taller than 16:9
         LET new_height == (width * th) \div tw
             y == IF crop_type = keep_top THEN 0
                  ELSE IF crop_type = keep_bottom THEN height - new_height
                  ELSE (height - new_height) \div 2
         IN  Geometry(width, new_height, 0, y)

CoreGeometry(crop_type, width, height) ==
    IF ~Truthy(crop_type) THEN Geometry(width, height, 0, 0)
    ELSE IF crop_type = "instagram"
    THEN LET size == Min(width, height)
         IN  Geometry(size, size, (width - size) \div 2, (height - size) \div 2)
    ELSE IF StartsWithHd(crop_type)
    THEN CoreWideCrop(crop_type, "hd_keep_top", "hd_keep_bottom",
                      HdTargetWidth, HdTargetHeight, width, height)
    ELSE IF StartsWithUhd(crop_type)
    THEN CoreWideCrop(crop_type, "uhd_keep_top", "hd_keep_bottom",
                      UhdTargetWidth, UhdTargetHeight, width, height)
    ELSE Geometry(width, height, 0, 0)

CoreOptions(crop_type, overlay_type, quality) ==
    (IF Truthy(crop_type) THEN <<crop_type>> ELSE <<>>)
    \o (IF Truthy(overlay_type) THEN <<overlay_type>> ELSE <<>>)
    \o (IF quality # "default" THEN <<quality>> ELSE <<>>)

CoreExt(output_file, quality) ==
    IF quality = "gif" THEN ".gif"
    ELSE IF quality \in {"prores", "proreshq"} THEN ".mov"
    ELSE output_file.ext

CoreOutputFile(output_file, crop_type, overlay_type, quality) ==
    LET options == CoreOptions(crop_type, overlay_type, quality)
    IN  IF options # <<>>
        THEN File(output_file.dir, output_file.stem \o Join(options),
                  CoreExt(output_file, quality))
        ELSE output_file

\* str.split('_') of the prefixes the file names of the model start with
PrefixWords(prefix) ==
    CASE prefix = "my_img" -> <<"my", "img">>
      [] OTHER -> <<prefix>>

\* len() of the words of those prefixes
WordLen(word) ==
    CASE word = "my" -> 2
      [] word = "img" -> 3
      [] word = "pic" -> 3
      [] word = "cover" -> 5
      [] OTHER -> 0

\* a piece of a file name between two underscores: letters, then a number of
\* digits, then the extension
NamePart(text, digits, ext) == [text |-> text, digits |-> digits, ext |-> ext]

\* first_filename.split('_') of <prefix><sep><digits><ext>; a file name without
\* a number (num = -1) is <prefix><ext>
NameParts(first) ==
    LET words == PrefixWords(first.prefix)
        plain == [k \in 1..Len(words) |-> NamePart(words[k], 0, "")]
        digits == IF first.num < 0 THEN 0 ELSE first.pad
    IN  IF first.num >= 0 /\ first.sep = "_"
        THEN plain \o <<NamePart("", digits, first.ext)>>
        ELSE [plain EXCEPT ![Len(words)] = NamePart(words[Len(words)], digits, first.ext)]

\* first_filename.split('_')[1] raises IndexError when the name has no '_'
CorePatternFails(first) == Len(NameParts(first)) < 2

\* the pattern that takes prefix, digit count and extension from the file
\* name as it is stored
CoreInputPattern_FromFields(first) ==
    [kind |-> "pattern", dir |-> first.dir, prefix |-> first.prefix,
     pad |-> first.pad, ext |-> first.ext]

\* pattern = f"{base_name}_%0{num_digits}d{ext}": base_name is the text before
\* the first '_', num_digits the length of the text between the first '_' and
\* the next '_' or '.'
CoreInputPattern(first) ==
    LET parts == NameParts(first)
        seq_part == parts[2]
    IN  [kind |-> "pattern", dir |-> first.dir, prefix |-> parts[1].text,
         pad |-> WordLen(seq_part.text) + seq_part.digits, ext |-> first.ext]

\* the text resources of the two overlay modes, one per frame
CoreDateFile(temp_dir, i, num_frames) ==
    TextFile(temp_dir, "date", i, IF num_frames > 0 THEN NumDigits(num_frames - 1) ELSE 1)

CoreDateContent(date_str) ==
    Content(IF Truthy(date_str) THEN date_str ELSE "No date available", -1)

CoreFrameNumFile(temp_dir, i) == TextFile(temp_dir, "framenum", i, 0)

CoreFrameNumContent(i) == Content("FRAME: ", i)

CoreTextFile(overlay_type, temp_dir, i, num_frames) ==
    IF overlay_type = "date" THEN CoreDateFile(temp_dir, i, num_frames)
    ELSE CoreFrameNumFile(temp_dir, i)

\* the text resources that all carry the text of the first frame
CoreTextContent_FirstFrame(overlay_type, frames, i) ==
    IF overlay_type = "date" THEN CoreDateContent(frames[1].date)
    ELSE CoreFrameNumContent(0)

CoreTextContent(overlay_type, frames, i) ==
    IF overlay_type = "date" THEN CoreDateContent(frames[i + 1].date)
    ELSE CoreFrameNumContent(i)

\* the labels of the chain without the frame index: every stage but the last
\* writes the same label
CoreStageLabel_NoIndex(overlay_type, i, num_frames) ==
    IF i < num_frames - 1
    THEN Label(IF overlay_type = "date" THEN "v" ELSE "v_frame", 0)
    ELSE VOut

\* output_stream_label of draw stage i
CoreStageLabel(overlay_type, i, num_frames) ==
    IF i < num_frames - 1
    THEN Label(IF overlay_type = "date" THEN "v" ELSE "v_frame", i)
    ELSE VOut

CoreCropStage(g, out) ==
    Stage(RawInput, "crop", <<g.width, g.height, g.x, g.y>>, NoTextFile, "", -1, out)

\* the draw stage enabled on the one-based frame number
CoreDrawStage_OneBased(overlay_type, src, temp_dir, i, num_frames, g) ==
    LET font_size == Min(g.width, g.height) \div 20
        box_padding == font_size \div 4
    IN  Stage(src, "drawtext",
              <<font_size, box_padding, g.width \div 20, g.height \div 20>>,
              CoreTextFile(overlay_type, temp_dir, i, num_frames), FontPath,
              i + 1, CoreStageLabel(overlay_type, i, num_frames))

\* draw stage i (0-based) of the chain; src is current_input_stream
CoreDrawStage(overlay_type, src, temp_dir, i, num_frames, g) ==
    LET font_size == Min(g.width, g.height) \div 20
        box_padding == font_size \div 4
    IN  Stage(src, "drawtext",
              <<font_size, box_padding, g.width \div 20, g.height \div 20>>,
              CoreTextFile(overlay_type, temp_dir, i, num_frames), FontPath,
              i, CoreStageLabel(overlay_type, i, num_frames))

\* filter_parts of an overlay mode: the optional crop stage, then the chain
CoreFilterParts(crop_type, overlay_type, temp_dir, num_frames, g) ==
    LET crop == IF Truthy(crop_type) THEN <<CoreCropStage(g, VCropped)>> ELSE <<>>
        first == IF Truthy(crop_type) THEN VCropped ELSE RawInput
        draw == [k \in 1..num_frames |->
                    CoreDrawStage(overlay_type,
                                  IF k = 1 THEN first
                                  ELSE CoreStageLabel(overlay_type, k - 2, num_frames),
                                  temp_dir, k - 1, num_frames, g)]
    IN  crop \o draw

CoreCodec(quality) ==
    IF quality \in {"prores", "proreshq"}
    THEN <<"-c:v", "prores_ks", "-profile:v",
           IF quality = "proreshq" THEN "3" ELSE "2",
           "-vendor", "apl0", "-pix_fmt", "yuv422p10le">>
    ELSE IF quality # "gif"
    THEN <<"-c:v", "libx264", "-preset", "slow", "-crf", "18", "-pix_fmt", "yuv420p">>
    ELSE <<>>

---------------------------------------------------------------------------
(* The record of one call of a renderer *)

\* a call that raised before it had any effect
Raised(impl, error) ==
    [impl |-> impl, outcome |-> "raised", error |-> error, built |-> FALSE,
     cmd |-> NoCmd, result |-> NoFile, outdirs |-> {}, tmpdirs |-> {},
     tmpfiles |-> {}, registered |-> {}, removed |-> {}, launches |-> 0,
     status |-> -1]

NoCall == [Raised("", "") EXCEPT !.outcome = ""]

\* a launched call that returns the output path whatever the exit status is
Finished_StatusIgnored(impl, error, cmd, outdirs, tmpdirs, tmpfiles, registered, removed, status) ==
    [impl |-> impl, outcome |-> "returned", error |-> "",
     built |-> TRUE, cmd |-> cmd, result |-> cmd.output,
     outdirs |-> outdirs, tmpdirs |-> tmpdirs, tmpfiles |-> tmpfiles,
     registered |-> registered, removed |-> removed, launches |-> 1,
     status |-> status]

\* subprocess.run(check=True) / Popen + returncode: how a launched call ends
Finished(impl, error, cmd, outdirs, tmpdirs, tmpfiles, registered, removed, status) ==
    [impl |-> impl,
     outcome |-> IF status = 0 THEN "returned" ELSE "raised",
     error |-> IF status = 0 THEN "" ELSE error,
     built |-> TRUE, cmd |-> cmd,
     result |-> IF status = 0 THEN cmd.output ELSE NoFile,
     outdirs |-> outdirs, tmpdirs |-> tmpdirs, tmpfiles |-> tmpfiles,
     registered |-> registered, removed |-> removed, launches |-> 1,
     status |-> status]

\* the whole of core.create_video_with_overlay: a are the arguments, kw the
\* names they are passed under, temp_dir the directory mkdtemp would return,
\* status the exit status of the encoder
CoreCall(a, kw, temp_dir, status) ==
    LET frames == a.image_date_files
        num_frames == Len(frames)
        overlay == a.overlay_type \in {"date", "frame"}
        g == CoreGeometry(a.crop_type, a.size.width, a.size.height)
        written == IF overlay
                   THEN {Written(CoreTextFile(a.overlay_type, temp_dir, i, num_frames),
                                 CoreTextContent(a.overlay_type, frames, i))
                            : i \in 0..(num_frames - 1)}
                   ELSE {}
        filter == IF overlay
                  THEN CoreFilterParts(a.crop_type, a.overlay_type, temp_dir, num_frames, g)
                  ELSE IF ~Truthy(a.overlay_type) /\ Truthy(a.crop_type)
                  THEN <<CoreCropStage(g, VOut)>>
                  ELSE <<>>
        cmd == [framerate |-> a.fps,
                input |-> CoreInputPattern(frames[1].path),
                filter |-> filter,
                map |-> IF filter # <<>> THEN "[v_out]" ELSE "",
                codec |-> CoreCodec(a.quality),
                rate |-> 0,
                output |-> CoreOutputFile(a.output_file, a.crop_type,
                                          a.overlay_type, a.quality)]
    IN  IF ~(kw \subseteq CoreParams) THEN Raised("core", "TypeError")
        ELSE IF FpsRejected(a.fps) THEN Raised("core", "ValueError")
        ELSE IF frames = <<>> THEN Raised("core", "ValueError")
        ELSE IF CorePatternFails(frames[1].path)
        THEN [Raised("core", "IndexError") EXCEPT !.outdirs = {a.output_file.dir}]
        ELSE Finished("core", "CalledProcessError", cmd,
                      {a.output_file.dir},
                      IF overlay THEN {temp_dir} ELSE {},
                      written,
                      IF overlay THEN {temp_dir} ELSE {},
                      {}, status)

---------------------------------------------------------------------------
(* sisr/__init__.py: create_video_with_overlay *)

PkgValidCropTypes == {None} \cup CropModes
PkgValidOverlayTypes == {None} \cup OverlayModes
PkgValidQualities == Qualities

\* str.lower on the quality values of the model
Lower(q) ==
    CASE q = "GIF" -> "gif"
      [] q = "ProRes" -> "prores"
      [] OTHER -> q

PkgStage(op, p, text) == Stage(NoLabel, op, p, NoTextFile, text, -1, NoLabel)

\* scale + crop of the hd and uhd families.  The source divides in floating
\* point (int(orig_ratio * resize_height), int(resize_width / orig_ratio));
\* on the sizes of this model that is the exact floor computed here.
PkgScaleCrop(crop_type, keep_top, keep_bottom, tw, th, orig_width, orig_height) ==
    LET wider == orig_width * th > orig_height * tw
        resize_height == IF wider THEN th ELSE (tw * orig_height) \div orig_width
        resize_width == IF wider THEN (orig_width * th) \div orig_height ELSE tw
        crop_y_offset == IF crop_type = keep_top THEN 0
                         ELSE IF crop_type = keep_bottom THEN resize_height - th
                         ELSE (resize_height - th) \div 2
    IN  <<PkgStage("scale", <<resize_width, resize_height>>, ""),
          PkgStage("crop", <<tw, th, 0, crop_y_offset>>, "")>>

PkgCropChain(crop_type, orig_width, orig_height) ==
    IF ~Truthy(crop_type) THEN <<>>
    ELSE IF crop_type = "instagram"
    THEN <<PkgStage("scale", <<1080, 1080>>, "force_original_aspect_ratio=decrease"),
           PkgStage("pad", <<1080, 1080>>, "x=(ow-iw)/2:y=(oh-ih)/2:color=black")>>
    ELSE IF StartsWithHd(crop_type)
    THEN PkgScaleCrop(crop_type, "hd_keep_top", "hd_keep_bottom",
                      HdTargetWidth, HdTargetHeight, orig_width, orig_height)
    ELSE IF StartsWithUhd(crop_type)
    THEN PkgScaleCrop(crop_type, "uhd_keep_top", "uhd_keep_bottom",
                      UhdTargetWidth, UhdTargetHeight, orig_width, orig_height)
    ELSE <<>>

PkgDateFontSize(crop_type, quality) ==
    LET base == IF Truthy(crop_type) /\ StartsWithUhd(crop_type) THEN 96 ELSE 48
    IN  IF quality = "gif" THEN base \div 2 ELSE base

PkgOverlayChain(crop_type, overlay_type, quality) ==
    IF overlay_type = "date"
    THEN <<PkgStage("drawtext", <<PkgDateFontSize(crop_type, quality), 10>>,
                    "%{metadata:date}")>>
    ELSE IF overlay_type = "frame"
    THEN <<PkgStage("drawtext", <<96, 5>>, "FRAME: %{frame_num}")>>
    ELSE <<>>

PkgFilterChain(crop_type, overlay_type, quality, orig_width, orig_height) ==
    PkgCropChain(crop_type, orig_width, orig_height)
    \o (IF quality = "gif" THEN <<PkgStage("scale", <<>>, "iw/2:ih/2")>> ELSE <<>>)
    \o PkgOverlayChain(crop_type, overlay_type, quality)

\* the palette fork-join appended to the joined chain for quality gif; an
\* empty chain leaves an empty first filter before the comma
PkgGifFilter(filter_chain) ==
    (IF filter_chain = <<>> THEN <<PkgStage("", <<>>, "")>> ELSE filter_chain)
    \o <<Stage(NoLabel, "split", <<>>, NoTextFile, "", -1, Label("s0][s1", -1)),
         Stage(Label("s0", -1), "palettegen", <<256>>, NoTextFile,
               "stats_mode=full", -1, Label("p", -1)),
         Stage(Label("s1][p", -1), "paletteuse", <<>>, NoTextFile,
               "dither=sierra2_4a:diff_mode=rectangle", -1, NoLabel)>>

PkgCodec(quality) ==
    IF quality = "gif" THEN <<"-loop", "1", "-f", "gif">>
    ELSE IF quality = "prores"
    THEN <<"-c:v", "prores_ks", "-pix_fmt", "yuv422p10le", "-profile:v", "2",
           "-vendor", "apl0", "-movflags", "+faststart", "-qscale:v", "9">>
    ELSE IF quality = "proreshq"
    THEN <<"-c:v", "prores_ks", "-pix_fmt", "yuv422p10le", "-profile:v", "3",
           "-vendor", "apl0", "-movflags", "+faststart", "-qscale:v", "5">>
    ELSE <<"-c:v", "libx264", "-pix_fmt", "yuv420p", "-profile:v", "high",
           "-crf", "18">>

PkgImageList(temp_dir, num_frames) ==
    Written(TextFile(temp_dir, "image_list", -1, 0), Content("concat", num_frames))

\* the whole of sisr.create_video_with_overlay (the definition of
\* sisr/__init__.py, which replaces the one imported from sisr.core)
PkgCall(a, temp_dir, status) ==
    LET frames == a.image_date_files
        num_frames == Len(frames)
        chain == PkgFilterChain(a.crop_type, a.overlay_type, a.quality,
                                a.size.width, a.size.height)
        cmd == [framerate |-> 0,
                input |-> [kind |-> "concat", dir |-> "", prefix |-> "image_list",
                           pad |-> temp_dir.id, ext |-> ".txt"],
                filter |-> IF a.quality = "gif" THEN PkgGifFilter(chain) ELSE chain,
                map |-> "",
                codec |-> PkgCodec(a.quality),
                rate |-> IF a.quality = "gif" THEN 0 ELSE a.fps,
                output |-> a.output_file]
    IN  IF FpsRejected(a.fps) THEN Raised("pkg", "ValueError")
        ELSE IF a.crop_type \notin PkgValidCropTypes THEN Raised("pkg", "ValueError")
        ELSE IF a.overlay_type \notin PkgValidOverlayTypes THEN Raised("pkg", "ValueError")
        ELSE IF Lower(a.quality) \notin PkgValidQualities THEN Raised("pkg", "ValueError")
        ELSE IF frames = <<>>
        THEN \* image_date_files[0] raises inside the try; finally removes temp_dir
             [Raised("pkg", "IndexError") EXCEPT
                 !.outdirs = {a.output_file.dir},
                 !.tmpdirs = {temp_dir},
                 !.tmpfiles = {PkgImageList(temp_dir, 0)},
                 !.removed = {temp_dir}]
        ELSE Finished("pkg", "RuntimeError", cmd,
                      {a.output_file.dir}, {temp_dir},
                      {PkgImageList(temp_dir, num_frames)}, {}, {temp_dir}, status)

---------------------------------------------------------------------------
(* Direct calls of the two renderers in one Python process *)

Dates == {None, "Monday"}

Sizes == {[width |-> 1920, height |-> 1080], [width |-> 1921, height |-> 1081],
          [width |-> 1080, height |-> 1920], [width |-> 4000, height |-> 2000]}

Frame(i, date) == [path |-> FramePath(i), date |-> date]

\* the frame lists: consecutive image files, each with or without a date
FrameLists ==
    UNION {{[k \in 1..n |-> Frame(k - 1, d[k])] : d \in [1..n -> Dates]}
              : n \in 0..MaxFrames}

OutputFiles == {File("out", <<"shoot1">>, ext) : ext \in {".mp4", ".avi"}}

ArgSets ==
    [image_date_files : FrameLists, output_file : OutputFiles, fps : {0, 30},
     crop_type : {None} \cup CropModes, overlay_type : {None} \cup OverlayModes,
     quality : Qualities, size : Sizes]

NoArgs ==
    [image_date_files |-> <<>>, output_file |-> NoFile, fps |-> 0,
     crop_type |-> None, overlay_type |-> None, quality |-> "default",
     size |-> [width |-> 0, height |-> 0]]

EmptyFs == [dirs |-> {}, files |-> {}, outdirs |-> {}]

NoRequest ==
    [issued |-> FALSE, crop_type |-> None, max_width |-> Absent, max_height |-> Absent]

NoArgv ==
    [input_is_dir |-> FALSE, fps |-> 0, crop_flag |-> "none", crop_pos |-> "center",
     overlay |-> None, quality |-> "default", max_width |-> Absent,
     max_height |-> Absent]

NoCli ==
    [prog |-> "none", argv |-> NoArgv, image_dirs |-> <<>>, pc |-> "", i |-> 0,
     exit_code |-> -1, base |-> <<>>, rendered |-> 0, success |-> FALSE,
     request |-> NoRequest]
\* a render worker thread that is not running
NoWorker ==
    [pc |-> "idle", crop_type |-> None, overlay_type |-> None, quality |-> "default",
     i |-> 0]

\* the GUI before the window exists
NoGui ==
    [open |-> FALSE, input_dir |-> FALSE, output_dir |-> FALSE, image_dirs |-> <<>>,
     crop_type_var |-> "None", crop_position_var |-> "center",
     position_disabled |-> FALSE, max_width_var |-> "", max_height_var |-> "",
     max_disabled |-> TRUE, overlay_type_var |-> "None", quality_var |-> "Default",
     start_disabled |-> FALSE, progress_var |-> 0, status_var |-> "Ready",
     worker |-> <<>>, queue |-> <<>>, starts |-> 0, request |-> NoRequest]

\* no read loop is running
NoPbar ==
    [pc |-> "idle", total |-> 0, n |-> 0, before |-> 0, reports |-> 0, read |-> 0,
     proc |-> "none", to_stdout |-> 0, to_stderr |-> 0, out_pipe |-> 0,
     err_pipe |-> <<>>]

\* parse_resolution has not been called
NoParse == [input |-> <<>>, is_none |-> FALSE, outcome |-> "", width |-> Absent,
            height |-> Absent]

\* no preference file, no call of save_prefs or load_prefs yet
NoPrefs == [exists |-> FALSE, text |-> <<>>, saves |-> 0, saved |-> {},
            earlier |-> {}, fresh |-> FALSE, loaded |-> {}]

HelpersIdle == pbar = NoPbar /\ parsed = NoParse /\ prefs = NoPrefs

\* the temporary directories mkdtemp can return under parent: any name not in use
FreeTmpDirs(parent) ==
    {TmpDir(parent, id) : id \in 1..NumTempNames} \ fs.dirs

\* the effects of a finished call r on the process and on the file system f
EffectsOn(f, r) ==
    /\ fs' = [dirs |-> (f.dirs \cup r.tmpdirs) \ r.removed,
              files |-> {w \in f.files \cup r.tmpfiles : w.file.dir \notin r.removed},
              outdirs |-> f.outdirs \cup r.outdirs]
    /\ atexit' = atexit \cup r.registered
    /\ ncalls' = ncalls + 1
    /\ prev' = last
    /\ last' = r

Effects(r) == EffectsOn(fs, r)

Init ==
    /\ args \in ArgSets
    /\ fs = EmptyFs
    /\ atexit = {}
    /\ alive = TRUE
    /\ HelpersIdle
    /\ ncalls = 0
    /\ last = NoCall
    /\ prev = NoCall
    /\ cli = NoCli
    /\ gui = NoGui

\* a caller calls sisr.core.create_video_with_overlay(**args)
CallCore ==
    /\ alive
    /\ cli.prog = "none"
    /\ ncalls < MaxCalls
    /\ \E temp_dir \in FreeTmpDirs("/tmp"), status \in {0, 1} :
          Effects(CoreCall(args, CoreParams, temp_dir, status))
    /\ UNCHANGED <<args, alive, cli, gui, helpers>>

\* a caller calls sisr.create_video_with_overlay(**args)
CallPkg ==
    /\ alive
    /\ cli.prog = "none"
    /\ ncalls < MaxCalls
    /\ \E temp_dir \in FreeTmpDirs(args.output_file.dir), status \in {0, 1} :
          Effects(PkgCall(args, temp_dir, status))
    /\ UNCHANGED <<args, alive, cli, gui, helpers>>

\* the interpreter exits and runs the cleanups registered with atexit
ProcessExit ==
    /\ alive
    /\ cli.prog = "none" \/ cli.pc = "exited"
    /\ alive' = FALSE
    /\ fs' = [fs EXCEPT !.dirs = fs.dirs \ atexit,
                        !.files = {w \in fs.files : w.file.dir \notin atexit}]
    /\ atexit' = {}
    /\ UNCHANGED <<args, ncalls, last, prev, cli, gui, helpers>>

Next == CallCore \/ CallPkg \/ ProcessExit

Spec == Init /\ [][Next]_vars

---------------------------------------------------------------------------
(* The command-line front ends: sisr/__main__.py main and sisr/__init__.py main *)

\* the size of the images the front ends find
CliImageSize == [width |-> 1920, height |-> 1080]

\* the formatted date create_date_files attaches to an image (never empty)
FormattedDate == "Monday"

\* the name of an image file: <prefix><sep><num in pad digits><ext>, or
\* <prefix><ext> when num is -1.  The prefixes of the model hold no digit.
ImageName(prefix, sep, num, pad, ext) ==
    [prefix |-> prefix, sep |-> sep, num |-> num, pad |-> pad, ext |-> ext]

\* an image directory: its name and its image files in the order of the
\* sorted file names
NamedDir(name, files) == [name |-> name, files |-> files]

\* the directory of the files <name>/img_<number>.jpg
ImageDir(name, nums) ==
    NamedDir(name, [k \in 1..Len(nums) |-> ImageName("img", "_", nums[k], 4, ".jpg")])

RECURSIVE Insert(_, _)
Insert(x, sorted) ==
    IF sorted = <<>> THEN <<x>>
    ELSE IF x <= Head(sorted) THEN <<x>> \o sorted
    ELSE <<Head(sorted)>> \o Insert(x, Tail(sorted))

RECURSIVE Sorted(_)
\* list.sort() on a list of numbers
Sorted(nums) == IF nums = <<>> THEN <<>> ELSE Insert(Head(nums), Sorted(Tail(nums)))

\* validate_args: the error it raises, or "" when the arguments pass
ValidateArgs(argv) ==
    IF ~argv.input_is_dir THEN "Input directory does not exist"
    ELSE IF argv.fps <= 0 THEN "FPS must be positive"
    ELSE IF (TruthyInt(argv.max_width) \/ TruthyInt(argv.max_height))
            /\ argv.crop_flag # "none"
    THEN "--max-width and --max-height can only be used if no crop mode is selected."
    ELSE IF argv.max_width.set /\ argv.max_width.v <= 0
    THEN "--max-width must be a positive integer"
    ELSE IF argv.max_height.set /\ argv.max_height.v <= 0
    THEN "--max-height must be a positive integer"
    ELSE ""

\* f"hd_{pos}" / f"uhd_{pos}"
HdCrop(pos) ==
    CASE pos = "center" -> "hd_center"
      [] pos = "keep_top" -> "hd_keep_top"
      [] pos = "keep_bottom" -> "hd_keep_bottom"

UhdCrop(pos) ==
    CASE pos = "center" -> "uhd_center"
      [] pos = "keep_top" -> "uhd_keep_top"
      [] pos = "keep_bottom" -> "uhd_keep_bottom"

\* __main__.get_crop_type
GetCropType(argv) ==
    IF argv.crop_flag = "instagram" THEN "instagram"
    ELSE IF argv.crop_flag = "hd" THEN HdCrop(argv.crop_pos)
    ELSE IF argv.crop_flag = "uhd" THEN UhdCrop(argv.crop_pos)
    ELSE None

\* the output file __main__.main passes for a directory
MainOutputFile(dir_name, argv) ==
    File("out",
         <<dir_name>> \o (IF argv.overlay # None THEN <<argv.overlay>> ELSE <<>>),
         IF argv.quality = "gif" THEN ".gif"
         ELSE IF argv.quality \in {"prores", "proreshq"} THEN ".mov"
         ELSE ".mp4")

\* the (image path, date) list a front end builds for a directory
DirFrames(dir, overlay) ==
    [k \in 1..Len(dir.files) |->
        [path |-> [dir |-> dir.name, prefix |-> dir.files[k].prefix,
                   sep |-> dir.files[k].sep, num |-> dir.files[k].num,
                   pad |-> dir.files[k].pad, ext |-> dir.files[k].ext],
         date |-> IF overlay = "date" THEN FormattedDate ELSE None]]

HasNumber(frame) == frame.path.num >= 0

\* the numbers of a list of frames
Numbers(frames) == [k \in 1..Len(frames) |-> frames[k].path.num]

\* the sequence check of __main__.main: the first number of every file name
\* that holds one, sorted, is a run of consecutive numbers
MainSequential(frames) ==
    LET numbers == Sorted(Numbers(SelectSeq(frames, HasNumber)))
    IN  /\ numbers # <<>>
        /\ \A k \in 1..Len(numbers) : numbers[k] = numbers[1] + k - 1

\* the keyword arguments __main__.main passes to create_video_with_overlay
MainKeywords == CoreParams \cup {"max_width", "max_height"}

CallArgs(frames, output_file, fps, crop_type, overlay_type, quality) ==
    [image_date_files |-> frames, output_file |-> output_file, fps |-> fps,
     crop_type |-> crop_type, overlay_type |-> overlay_type, quality |-> quality,
     size |-> CliImageSize]

Request(crop_type, max_width, max_height) ==
    [issued |-> TRUE, crop_type |-> crop_type, max_width |-> max_width,
     max_height |-> max_height]

Exit(code) == [cli EXCEPT !.pc = "exited", !.exit_code = code]

\* __main__.main up to the loop: parse_args, validate_args,
\* find_image_directories
MainStart ==
    /\ cli.prog = "main"
    /\ cli.pc = "start"
    /\ LET error == ValidateArgs(cli.argv)
       IN  /\ cli' = IF error # "" THEN Exit(1)
                     ELSE IF cli.image_dirs = <<>> THEN Exit(1)
                     ELSE [cli EXCEPT !.pc = "loop", !.i = 1]
           \* validate_args creates the output directory once the input exists
           /\ fs' = IF cli.argv.input_is_dir
                    THEN [fs EXCEPT !.outdirs = fs.outdirs \cup {"out"}]
                    ELSE fs
    /\ UNCHANGED <<args, atexit, alive, ncalls, last, prev, gui, helpers>>

\* one iteration of the loop of __main__.main over image_dirs
MainRenderDir ==
    /\ cli.prog = "main"
    /\ cli.pc = "loop"
    /\ cli.i <= Len(cli.image_dirs)
    /\ LET dir == cli.image_dirs[cli.i]
           argv == cli.argv
           frames == DirFrames(dir, argv.overlay)
           a == CallArgs(frames, MainOutputFile(dir.name, argv), argv.fps,
                         GetCropType(argv), argv.overlay, argv.quality)
       IN  IF frames = <<>> \/ ~MainSequential(frames)
           THEN \* "No images found" / "does not contain a sequentially named ..."
                /\ cli' = [cli EXCEPT !.i = cli.i + 1]
                /\ UNCHANGED <<args, fs, atexit, ncalls, last, prev>>
           ELSE \E temp_dir \in FreeTmpDirs("/tmp"), status \in {0, 1} :
                    LET r == CoreCall(a, MainKeywords, temp_dir, status)
                    IN  /\ Effects(r)
                        /\ args' = a
                        /\ cli' = [(IF r.outcome = "raised" THEN Exit(1)
                                    ELSE [cli EXCEPT !.i = cli.i + 1,
                                                     !.rendered = cli.rendered + 1])
                                   EXCEPT !.base = <<dir.name>>,
                                          !.request = Request(a.crop_type, argv.max_width,
                                                              argv.max_height)]
    /\ UNCHANGED <<alive, gui, helpers>>

\* the end of __main__.main: "Rendering completed successfully"
MainFinish ==
    /\ cli.prog = "main"
    /\ cli.pc = "loop"
    /\ cli.i > Len(cli.image_dirs)
    /\ cli' = [Exit(0) EXCEPT !.success = TRUE]
    /\ UNCHANGED <<args, fs, atexit, alive, ncalls, last, prev, gui, helpers>>

\* f'hd_{args.hd_crop}' with the choices of sisr/__init__.py main, which are
\* spelled 'keep-top' and 'keep-bottom'
PkgMainCropType(argv) ==
    IF argv.crop_flag = "instagram" THEN "instagram"
    ELSE IF argv.crop_flag = "hd"
    THEN CASE argv.crop_pos = "center" -> "hd_center"
           [] argv.crop_pos = "keep_top" -> "hd_keep-top"
           [] argv.crop_pos = "keep_bottom" -> "hd_keep-bottom"
    ELSE IF argv.crop_flag = "uhd"
    THEN CASE argv.crop_pos = "center" -> "uhd_center"
           [] argv.crop_pos = "keep_top" -> "uhd_keep-top"
           [] argv.crop_pos = "keep_bottom" -> "uhd_keep-bottom"
    ELSE None

\* the output file sisr/__init__.py main builds: quality, crop, overlay
PkgMainOutputFile(input_dir_name, crop_type, overlay, quality) ==
    File("out",
         <<input_dir_name>>
         \o (IF quality \in {"prores", "proreshq", "gif"} THEN <<quality>> ELSE <<>>)
         \o (IF Truthy(crop_type) THEN Words(crop_type) ELSE <<>>)
         \o (IF Truthy(overlay) THEN <<overlay>> ELSE <<>>),
         IF quality \in {"prores", "proreshq"} THEN ".mov"
         ELSE IF quality = "gif" THEN ".gif"
         ELSE ".mp4")

\* the whole of sisr/__init__.py main; the input directory is the first of
\* image_dirs, or a directory without images when there is none
PkgMain ==
    /\ cli.prog = "pkg_main"
    /\ cli.pc = "start"
    /\ LET argv == cli.argv
           has_images == cli.image_dirs # <<>>
           dir == IF has_images THEN cli.image_dirs[1] ELSE ImageDir("shoot1", <<>>)
           crop_type == PkgMainCropType(argv)
           frames == DirFrames(dir, argv.overlay)
           a == CallArgs(frames,
                         PkgMainOutputFile(dir.name, crop_type, argv.overlay, argv.quality),
                         argv.fps, crop_type, argv.overlay, argv.quality)
           \* os.makedirs(args.output_dir), and create_date_files' own directory
           made == [fs EXCEPT !.outdirs =
                       fs.outdirs \cup {"out"}
                       \cup (IF argv.overlay = "date" THEN {"out/date_files"} ELSE {})]
       IN  IF frames = <<>>
           THEN \* "No images found to process"
                /\ cli' = Exit(0)
                /\ fs' = made
                /\ UNCHANGED <<args, atexit, ncalls, last, prev>>
           ELSE \E temp_dir \in FreeTmpDirs("out"), status \in {0, 1} :
                    LET r == PkgCall(a, temp_dir, status)
                    IN  /\ EffectsOn(made, r)
                        /\ args' = a
                        /\ cli' = [Exit(IF r.outcome = "raised" THEN 1 ELSE 0)
                                   EXCEPT !.base = <<dir.name>>,
                                          !.rendered = IF r.outcome = "raised" THEN 0 ELSE 1,
                                          !.request = Request(crop_type, Absent, Absent)]
    /\ UNCHANGED <<alive, gui, helpers>>

MaxDirs == 2

DirNames == <<"shoot1", "shoot2", "shoot3">>

\* the directories of a run: each a consecutive sequence or one with a gap
DirShapes == {<<0, 1, 2>>, <<0, 2>>}

ImageDirLists ==
    UNION {{[k \in 1..n |-> ImageDir(DirNames[k], shape[k])] : shape \in [1..n -> DirShapes]}
              : n \in 0..MaxDirs}

\* the parsed arguments: argparse admits one crop option and one overlay option
Argvs ==
    [input_is_dir : BOOLEAN, fps : {0, 30},
     crop_flag : {"none", "instagram", "hd", "uhd"},
     crop_pos : {"center", "keep_top", "keep_bottom"},
     overlay : {None, "date", "frame"}, quality : Qualities,
     max_width : {Absent, Some(0), Some(1280)},
     max_height : {Absent, Some(720)}]

InitCli ==
    /\ args = NoArgs
    /\ fs = EmptyFs
    /\ atexit = {}
    /\ alive = TRUE
    /\ HelpersIdle
    /\ ncalls = 0
    /\ last = NoCall
    /\ prev = NoCall
    /\ gui = NoGui
    /\ \E prog \in {"main", "pkg_main"}, argv \in Argvs, image_dirs \in ImageDirLists :
          /\ (prog = "pkg_main" => ~argv.max_width.set /\ ~argv.max_height.set)
          /\ (~argv.input_is_dir => image_dirs = <<>>)
          /\ (argv.crop_flag \in {"none", "instagram"} => argv.crop_pos = "center")
          /\ cli = [NoCli EXCEPT !.prog = prog, !.argv = argv,
                                 !.image_dirs = image_dirs, !.pc = "start"]

NextCli == MainStart \/ MainRenderDir \/ MainFinish \/ PkgMain

SpecCli == InitCli /\ [][NextCli]_vars

---------------------------------------------------------------------------
(* The GUI: sisr/gui.py SISRGUI *)

MaxWorkers == 2
MaxStarts == 2
MaxQueue == 8

\* int(value) of the texts the model types into an entry field; a text that
\* is no number raises ValueError, which get_max_width turns into None
IntOfText(text) ==
    CASE text = "800" -> Some(800)
      [] text = "600" -> Some(600)
      [] OTHER -> Absent

\* SISRGUI.get_max_width / get_max_height: the field stripped and read as int
GetMaxDimension(text) == IF text = "" THEN Absent ELSE IntOfText(text)

\* SISRGUI.get_crop_type
GuiCropType(crop_type_var, position) ==
    IF crop_type_var = "None" THEN None
    ELSE IF crop_type_var = "Instagram" THEN "instagram"
    ELSE IF crop_type_var = "HD" THEN HdCrop(position)
    ELSE IF crop_type_var = "UHD" THEN UhdCrop(position)
    ELSE None

\* SISRGUI.get_overlay_type: the selection in lower case
GuiOverlayType(overlay_type_var) ==
    CASE overlay_type_var = "None" -> None
      [] overlay_type_var = "Date" -> "date"
      [] overlay_type_var = "Frame" -> "frame"

\* SISRGUI.get_quality
GuiQuality(quality_var) ==
    CASE quality_var = "Default" -> "default"
      [] quality_var = "ProRes" -> "prores"
      [] quality_var = "ProRes HQ" -> "proreshq"
      [] quality_var = "GIF" -> "gif"
      [] OTHER -> "default"

\* a callback scheduled with root.after(0, ...)
Callback(kind, v) == [kind |-> kind, v |-> v]

SetStatus(text) == Callback("status", text)
ShowMessage(text) == Callback("message", text)
EnableStart == Callback("enable", "")
ResetProgress == Callback("progress", "0")

\* the main thread runs one scheduled callback
RunCallback(g, cb) ==
    IF cb.kind = "status" THEN [g EXCEPT !.status_var = cb.v]
    ELSE IF cb.kind = "enable" THEN [g EXCEPT !.start_disabled = FALSE]
    ELSE IF cb.kind = "progress" THEN [g EXCEPT !.progress_var = 0]
    ELSE g

RECURSIVE RunAll(_, _)
\* root.update(): the main thread runs every pending callback, in order
RunAll(g, queue) ==
    IF queue = <<>> THEN g ELSE RunAll(RunCallback(g, Head(queue)), Tail(queue))

\* the keyword arguments SISRGUI._render_worker passes to create_video_with_overlay
GuiKeywords == CoreParams \cup {"max_width", "max_height", "progress_callback"}

\* the sequence check of the GUI: the file names that end in digits are
\* grouped by prefix, digit count and extension, and one group whose numbers
\* are consecutive is enough
GuiSequential(frames) ==
    LET valid_matches == SelectSeq(frames, HasNumber)
        Key(f) == <<f.path.prefix, f.path.sep, f.path.pad, f.path.ext>>
        keys == {Key(valid_matches[k]) : k \in 1..Len(valid_matches)}
        Group(key) == Numbers(SelectSeq(valid_matches, LAMBDA f : Key(f) = key))
    IN  \E key \in keys :
            LET nums == Sorted(Group(key))
            IN  \A k \in 1..Len(nums) : nums[k] = nums[1] + k - 1

\* the user picks a value in the crop combobox: on_crop_type_change
SelectCropType ==
    /\ gui.open
    /\ \E v \in {"None", "Instagram", "HD", "UHD"} :
          gui' = IF v = "None"
                 THEN [gui EXCEPT !.crop_type_var = v,
                                  !.crop_position_var = "center",
                                  !.position_disabled = TRUE,
                                  !.max_disabled = FALSE]
                 ELSE [gui EXCEPT !.crop_type_var = v,
                                  !.position_disabled = FALSE,
                                  !.max_disabled = TRUE]
    /\ UNCHANGED <<args, fs, atexit, alive, ncalls, last, prev, cli, helpers>>

\* the user picks a crop position; a disabled combobox takes no input
SelectCropPosition ==
    /\ gui.open
    /\ ~gui.position_disabled
    /\ \E v \in {"center", "keep_top", "keep_bottom"} :
          gui' = [gui EXCEPT !.crop_position_var = v]
    /\ UNCHANGED <<args, fs, atexit, alive, ncalls, last, prev, cli, helpers>>

\* the user types into the max-width field; a disabled entry takes no input
TypeMaxWidth ==
    /\ gui.open
    /\ ~gui.max_disabled
    /\ \E v \in {"", "800"} : gui' = [gui EXCEPT !.max_width_var = v]
    /\ UNCHANGED <<args, fs, atexit, alive, ncalls, last, prev, cli, helpers>>

\* the user types into the max-height field
TypeMaxHeight ==
    /\ gui.open
    /\ ~gui.max_disabled
    /\ \E v \in {"", "600"} : gui' = [gui EXCEPT !.max_height_var = v]
    /\ UNCHANGED <<args, fs, atexit, alive, ncalls, last, prev, cli, helpers>>

\* start_render without the statement that disables the start button
StartRender_ButtonLeftEnabled ==
    /\ gui.open
    /\ ~gui.start_disabled
    /\ gui.starts < MaxStarts
    /\ gui.input_dir /\ gui.output_dir
    /\ Len(gui.worker) < MaxWorkers
    /\ gui' = [RunAll([gui EXCEPT !.progress_var = 0,
                                  !.status_var = "Starting rendering..."],
                      gui.queue)
               EXCEPT !.queue = <<>>,
                      !.starts = gui.starts + 1,
                      !.worker = Append(gui.worker, [NoWorker EXCEPT !.pc = "begin"])]
    /\ UNCHANGED <<args, fs, atexit, alive, ncalls, last, prev, cli, helpers>>

\* the user presses the start button: start_render
StartRender ==
    /\ gui.open
    /\ ~gui.start_disabled
    /\ gui.starts < MaxStarts
    /\ IF ~gui.input_dir \/ ~gui.output_dir
       THEN \* "Please select both input and output directories"
            gui' = [gui EXCEPT !.starts = gui.starts + 1]
       ELSE /\ Len(gui.worker) < MaxWorkers
            /\ LET disabled == [gui EXCEPT !.start_disabled = TRUE,
                                           !.progress_var = 0,
                                           !.status_var = "Starting rendering..."]
                   updated == RunAll(disabled, gui.queue)
               IN  gui' = [updated EXCEPT
                              !.queue = <<>>,
                              !.starts = gui.starts + 1,
                              !.worker = Append(gui.worker, [NoWorker EXCEPT !.pc = "begin"])]
    /\ UNCHANGED <<args, fs, atexit, alive, ncalls, last, prev, cli, helpers>>

\* the main loop runs the oldest scheduled callback
TkCallback ==
    /\ gui.open
    /\ gui.queue # <<>>
    /\ gui' = [RunCallback(gui, Head(gui.queue)) EXCEPT !.queue = Tail(gui.queue)]
    /\ UNCHANGED <<args, fs, atexit, alive, ncalls, last, prev, cli, helpers>>

\* worker w schedules callbacks cbs and moves on
Schedule(w, cbs, next) ==
    [gui EXCEPT !.queue = gui.queue \o cbs, !.worker[w] = next]

\* _render_worker up to the loop: the options are read, the directories found
WorkerBegin(w) ==
    /\ gui.worker[w].pc = "begin"
    /\ Len(gui.queue) + 2 <= MaxQueue
    /\ LET me == [gui.worker[w] EXCEPT
                     !.crop_type = GuiCropType(gui.crop_type_var, gui.crop_position_var),
                     !.overlay_type = GuiOverlayType(gui.overlay_type_var),
                     !.quality = GuiQuality(gui.quality_var)]
       IN  gui' = IF gui.image_dirs = <<>>
                  THEN Schedule(w, <<SetStatus("No image directories found"),
                                     ShowMessage("No image directories found")>>,
                                [me EXCEPT !.pc = "finally"])
                  ELSE Schedule(w, <<>>, [me EXCEPT !.pc = "loop", !.i = 1])
    /\ UNCHANGED <<args, fs, atexit, alive, ncalls, last, prev, cli, helpers>>

\* one iteration of the loop of _render_worker over image_dirs
WorkerDir(w) ==
    /\ gui.worker[w].pc = "loop"
    /\ gui.worker[w].i <= Len(gui.image_dirs)
    /\ Len(gui.queue) + 3 <= MaxQueue
    /\ LET me == gui.worker[w]
           dir == gui.image_dirs[me.i]
           frames == DirFrames(dir, me.overlay_type)
           a == CallArgs(frames, File("out", <<dir.name>>, ".mp4"), 30,
                         me.crop_type, me.overlay_type, me.quality)
           max_width == GetMaxDimension(gui.max_width_var)
           max_height == GetMaxDimension(gui.max_height_var)
       IN  IF frames = <<>>
           THEN /\ gui' = Schedule(w, <<>>, [me EXCEPT !.i = me.i + 1])
                /\ UNCHANGED <<args, fs, atexit, ncalls, last, prev>>
           ELSE IF ~GuiSequential(frames)
           THEN /\ gui' = Schedule(w, <<ShowMessage("not a sequentially named image sequence"),
                                        SetStatus("Error: Non-sequential image names")>>,
                                   [me EXCEPT !.i = me.i + 1])
                /\ UNCHANGED <<args, fs, atexit, ncalls, last, prev>>
           ELSE \E temp_dir \in FreeTmpDirs("/tmp"), status \in {0, 1} :
                    LET r == CoreCall(a, GuiKeywords, temp_dir, status)
                    IN  /\ Effects(r)
                        /\ args' = a
                        /\ gui' = [(IF r.outcome = "raised"
                                    THEN Schedule(w, <<SetStatus("Processing"),
                                                       SetStatus("Error during rendering"),
                                                       ShowMessage(r.error)>>,
                                                  [me EXCEPT !.pc = "finally"])
                                    ELSE Schedule(w, <<SetStatus("Processing")>>,
                                                  [me EXCEPT !.i = me.i + 1]))
                                   EXCEPT !.request = Request(me.crop_type, max_width,
                                                              max_height)]
    /\ UNCHANGED <<alive, cli, helpers>>

\* the end of the loop: "Rendering completed successfully"
WorkerSuccess(w) ==
    /\ gui.worker[w].pc = "loop"
    /\ gui.worker[w].i > Len(gui.image_dirs)
    /\ Len(gui.queue) + 2 <= MaxQueue
    /\ gui' = Schedule(w, <<SetStatus("Rendering completed successfully"),
                            ShowMessage("Video rendering completed successfully")>>,
                       [gui.worker[w] EXCEPT !.pc = "finally"])
    /\ UNCHANGED <<args, fs, atexit, alive, ncalls, last, prev, cli, helpers>>

\* a finally block that does not ask for the start button to be re-enabled
WorkerFinallyEnable_NotScheduled(w) ==
    /\ gui.worker[w].pc = "finally"
    /\ gui' = Schedule(w, <<>>, [gui.worker[w] EXCEPT !.pc = "finally2"])
    /\ UNCHANGED <<args, fs, atexit, alive, ncalls, last, prev, cli, helpers>>

\* the finally block, first statement: the start button is to be re-enabled
WorkerFinallyEnable(w) ==
    /\ gui.worker[w].pc = "finally"
    /\ Len(gui.queue) + 1 <= MaxQueue
    /\ gui' = Schedule(w, <<EnableStart>>, [gui.worker[w] EXCEPT !.pc = "finally2"])
    /\ UNCHANGED <<args, fs, atexit, alive, ncalls, last, prev, cli, helpers>>

\* the finally block, second statement: the progress is to be reset; the
\* thread ends
WorkerFinallyReset(w) ==
    /\ gui.worker[w].pc = "finally2"
    /\ Len(gui.queue) + 1 <= MaxQueue
    /\ gui' = [gui EXCEPT
                  !.queue = Append(gui.queue, ResetProgress),
                  !.worker = SubSeq(gui.worker, 1, w - 1)
                             \o SubSeq(gui.worker, w + 1, Len(gui.worker))]
    /\ UNCHANGED <<args, fs, atexit, alive, ncalls, last, prev, cli, helpers>>

Worker ==
    \E w \in 1..Len(gui.worker) :
        \/ WorkerBegin(w)
        \/ WorkerDir(w)
        \/ WorkerSuccess(w)
        \/ WorkerFinallyEnable(w)
        \/ WorkerFinallyReset(w)

\* the window after SISRGUI.__init__: no crop, the max fields disabled; the
\* directories come from the saved preferences.  The overlay and the quality
\* comboboxes are left as constructed ("None", "Default").
InitGui ==
    /\ args = NoArgs
    /\ fs = EmptyFs
    /\ atexit = {}
    /\ alive = TRUE
    /\ HelpersIdle
    /\ ncalls = 0
    /\ last = NoCall
    /\ prev = NoCall
    /\ cli = NoCli
    /\ \E dirs_set \in BOOLEAN, image_dirs \in ImageDirLists :
          /\ Len(image_dirs) <= 1
          /\ gui = [NoGui EXCEPT !.open = TRUE, !.input_dir = dirs_set,
                                 !.output_dir = dirs_set, !.image_dirs = image_dirs]

NextGui ==
    \/ SelectCropType
    \/ SelectCropPosition
    \/ TypeMaxWidth
    \/ TypeMaxHeight
    \/ StartRender
    \/ TkCallback
    \/ Worker

SpecGui == InitGui /\ [][NextGui]_vars

\* the same calls, on the arguments the filter-chain properties depend on:
\* every length of the frame list, crop mode, overlay mode and quality, with a
\* valid frame rate, one output file and frames that all carry the same date
\* (the texts drawn are no part of the stage structure)
InitChain ==
    /\ Init
    /\ args.fps = 30
    /\ args.output_file.ext = ".mp4"
    /\ args.size.width = 1920
    /\ \A k \in 1..Len(args.image_date_files) :
          args.image_date_files[k].date = args.image_date_files[1].date

SpecChain == InitChain /\ [][Next]_vars

\* direct calls whose crop mode, overlay mode or quality may be a value outside
\* its fixed set
OptionArgSets ==
    [image_date_files : {f \in FrameLists : Len(f) \in 1..2 /\ \A k \in 1..Len(f) : f[k].date = None},
     output_file : {File("out", <<"shoot1">>, ".mp4")},
     fps : {30},
     crop_type : {None, "instagram", "hd_center", "square"},
     overlay_type : {None, "date", "timestamp"},
     quality : {"default", "prores", "GIF", "lossless"},
     size : {CliImageSize}]

InitOptions ==
    /\ args \in OptionArgSets
    /\ fs = EmptyFs
    /\ atexit = {}
    /\ alive = TRUE
    /\ HelpersIdle
    /\ ncalls = 0
    /\ last = NoCall
    /\ prev = NoCall
    /\ cli = NoCli
    /\ gui = NoGui

SpecOptions == InitOptions /\ [][Next]_vars

\* direct calls and command-line runs together: a process either calls the
\* renderers directly or runs one of the two mains.  The direct calls take
\* every kind of frame rate, every quality and every exit status of the
\* encoder, with one source size, one output file and frames of one date.
RenderArgSets ==
    [image_date_files : {f \in FrameLists : \A k \in 1..Len(f) : f[k].date = f[1].date},
     output_file : {File("out", <<"shoot1">>, ".mp4")},
     fps : {NotANumber, 0, 30},
     crop_type : {None, "instagram"}, overlay_type : {None, "date"},
     quality : Qualities, size : {CliImageSize}]

InitRender ==
    \/ /\ args \in RenderArgSets
       /\ fs = EmptyFs
       /\ atexit = {}
       /\ alive = TRUE
       /\ HelpersIdle
       /\ ncalls = 0
       /\ last = NoCall
       /\ prev = NoCall
       /\ cli = NoCli
       /\ gui = NoGui
    \/ InitCli

NextRender == Next \/ NextCli

SpecRender == InitRender /\ [][NextRender]_vars

---------------------------------------------------------------------------
(* Properties of the filter graph of core.create_video_with_overlay *)

IsDrawStage(s) == s.op = "drawtext"

\* the last call is a call of core.create_video_with_overlay that built its
\* command from a non-empty frame list with an overlay mode
CoreOverlayRendered ==
    /\ last.impl = "core"
    /\ last.built
    /\ args.overlay_type \in OverlayModes

\* C1: for a non-empty list of N frames rendered with an overlay mode, the
\* filter graph has exactly N draw-text stages, and the k-th of them in graph
\* order (k = 0..N-1) is enabled on output frame k only: the indices are
\* distinct, cover 0..N-1 and increase strictly along the graph.
C1_OverlayLinearity ==
    CoreOverlayRendered =>
        LET draw == SelectSeq(last.cmd.filter, IsDrawStage)
        IN  /\ Len(draw) = Len(args.image_date_files)
            /\ \A k \in 1..Len(draw) : draw[k].enable = k - 1

C1_Witness ==
    /\ CoreOverlayRendered
    /\ Len(args.image_date_files) = MaxFrames
    /\ Truthy(args.crop_type)

\* C2: the stream labels of every filter graph built by
\* core.create_video_with_overlay form one linear chain: the first stage reads
\* [0:v], every later stage reads the label written by the stage just before
\* it, no label is written by two stages or read by two stages, and the last
\* stage writes [v_out], which is the label the command maps.
C2_LinearChain ==
    (last.impl = "core" /\ last.built /\ last.cmd.filter # <<>>) =>
        LET f == last.cmd.filter
            n == Len(f)
        IN  /\ f[1].src = RawInput
            /\ \A k \in 2..n : f[k].src = f[k - 1].out
            /\ \A j, k \in 1..n : j # k => f[j].out # f[k].out /\ f[j].src # f[k].src
            /\ f[n].out = VOut
            /\ last.cmd.map = "[v_out]"

C2_Witness ==
    /\ last.impl = "core"
    /\ last.built
    /\ Truthy(args.crop_type)
    /\ args.overlay_type \in OverlayModes
    /\ Len(last.cmd.filter) = MaxFrames + 1

---------------------------------------------------------------------------
(* Properties of a render call, as the specification states them *)

\* the extension each quality dictates
QualityExt(quality) ==
    IF quality = "gif" THEN ".gif"
    ELSE IF quality \in {"prores", "proreshq"} THEN ".mov"
    ELSE ".mp4"

\* C4: the extension of the final output path is dictated by the quality
\* alone, whatever output path the caller supplies: default gives .mp4,
\* prores and proreshq give .mov, gif gives .gif.
C4_ExtensionByQuality ==
    last.built => last.cmd.output.ext = QualityExt(args.quality)

\* C5: once a render call has returned or raised, no temporary directory or
\* file created by it exists, on every exit path; after any sequence of
\* render calls in one process no temporary resource of a finished call is left.
C5_NoTempAfterCall ==
    alive => fs.dirs = {} /\ fs.files = {}

\* C6: two render calls of the same renderer with the same frame list and the
\* same options build the same encoder command, argument by argument.
C6_Determinism ==
    (prev.built /\ last.built /\ prev.impl = last.impl) => prev.cmd = last.cmd

Even(n) == n % 2 = 0

\* C7: for every crop mode and every positive source size, the width and the
\* height written into the crop stage of core.create_video_with_overlay are
\* even, positive and not larger than the source width and height.
C7_CropSizeEvenPositive ==
    (last.impl = "core" /\ last.built /\ args.crop_type \in CropModes
        /\ last.cmd.filter # <<>>) =>
        LET crop == last.cmd.filter[1]
        IN  /\ crop.op = "crop"
            /\ Even(crop.p[1]) /\ Even(crop.p[2])
            /\ crop.p[1] > 0 /\ crop.p[2] > 0
            /\ crop.p[1] <= args.size.width /\ crop.p[2] <= args.size.height

\* C10: a render call with an empty frame list raises before any effect on
\* the file system: it creates no output directory, no temporary directory
\* or file, and launches no encoder.
C10_EmptyInputNoEffect ==
    (last.outcome # "" /\ args.image_date_files = <<>>) =>
        /\ last.outcome = "raised"
        /\ last.outdirs = {}
        /\ last.tmpdirs = {}
        /\ last.tmpfiles = {}
        /\ last.launches = 0

---------------------------------------------------------------------------
(* Properties of the command-line front ends, as the specification states them *)

\* the output base name of the last render: the stem of the path given to a
\* direct call, the directory name in a command-line run
BaseName == IF cli.prog = "none" THEN args.output_file.stem ELSE cli.base

\* the suffix tokens in the order of the naming convention
NameTokens(crop_type, overlay_type, quality) ==
    (IF Truthy(crop_type) THEN <<crop_type>> ELSE <<>>)
    \o (IF Truthy(overlay_type) THEN <<overlay_type>> ELSE <<>>)
    \o (IF quality # "default" THEN <<quality>> ELSE <<>>)

\* C3: for every render, started by a direct call or from the command line,
\* the final output file name is the base name followed by the '_'-joined
\* tokens, each at most once and in the order crop mode, overlay mode,
\* quality (shoot1 with hd_center, date, prores gives
\* shoot1_hd_center_date_prores); with no option set it is the base name.
C3_OutputName ==
    last.built =>
        last.cmd.output.stem =
            BaseName \o Join(NameTokens(args.crop_type, args.overlay_type, args.quality))

\* a command-line run of __main__.main has passed a directory to the renderer
\* with no crop mode and a maximum width or height
MaxDimensionRequested ==
    /\ cli.prog = "main"
    /\ cli.request.issued
    /\ ~Truthy(cli.request.crop_type)
    /\ (cli.request.max_width.set \/ cli.request.max_height.set)

\* C8: with no crop mode and max_width and/or max_height given, a render
\* started from the command line completes, and its command scales the output
\* to even dimensions that fit every given bound and do not exceed the source
\* (1920x1080 with max_width=1280 gives width 1280, with max_height=720
\* height 720).
C8_MaxDimensionScaling ==
    MaxDimensionRequested =>
        /\ last.built
        /\ \E k \in 1..Len(last.cmd.filter) :
              LET scale == last.cmd.filter[k]
              IN  /\ scale.op = "scale"
                  /\ Even(scale.p[1]) /\ Even(scale.p[2])
                  /\ scale.p[1] <= args.size.width /\ scale.p[2] <= args.size.height
                  /\ (cli.request.max_width.set => scale.p[1] <= cli.request.max_width.v)
                  /\ (cli.request.max_height.set => scale.p[2] <= cli.request.max_height.v)
                  /\ (cli.request.max_width = Some(1280) /\ ~cli.request.max_height.set
                         => scale.p[1] = 1280)
                  /\ (cli.request.max_height = Some(720) /\ ~cli.request.max_width.set
                         => scale.p[2] = 720)

\* C9: in every front end, a render request that combines a crop mode with a
\* set max_width or max_height is rejected and never reaches the renderer: no
\* call of the renderer is ever made with both a crop mode and a max dimension.
C9_CropExcludesMaxDimension ==
    \A request \in {cli.request, gui.request} :
        request.issued =>
            ~(Truthy(request.crop_type)
              /\ (request.max_width.set \/ request.max_height.set))

---------------------------------------------------------------------------
(* Rejected requests *)

C12_UnknownOptionRejected ==
    (last.outcome # ""
        /\ (\/ args.crop_type \notin {None} \cup CropModes
            \/ args.overlay_type \notin {None} \cup OverlayModes
            \/ args.quality \notin Qualities)) =>
        /\ last.outcome = "raised"
        /\ last.error = "ValueError"
        /\ last.launches = 0

---------------------------------------------------------------------------
(* The codec table *)

\* the value that follows flag in an argument list, "" when the flag is absent
FlagValue(flags, flag) ==
    IF \E k \in 1..(Len(flags) - 1) : flags[k] = flag
    THEN LET k == CHOOSE j \in 1..(Len(flags) - 1) : flags[j] = flag
         IN  flags[k + 1]
    ELSE ""

\* C13: the codec flags of the built command depend only on the quality and
\* equal the fixed table: default gives H.264 with profile high, constant
\* quality 18 and yuv420p; prores gives ProRes profile 2, yuv422p10le and
\* quality scale 9; proreshq gives ProRes profile 3, yuv422p10le and quality
\* scale 5; gif gives no video codec flag.
C13_CodecTable ==
    last.built =>
        LET c == last.cmd.codec
            q == args.quality
        IN  /\ q = "default" =>
                   /\ FlagValue(c, "-c:v") = "libx264"
                   /\ FlagValue(c, "-profile:v") = "high"
                   /\ FlagValue(c, "-crf") = "18"
                   /\ FlagValue(c, "-pix_fmt") = "yuv420p"
            /\ q = "prores" =>
                   /\ FlagValue(c, "-c:v") = "prores_ks"
                   /\ FlagValue(c, "-profile:v") = "2"
                   /\ FlagValue(c, "-pix_fmt") = "yuv422p10le"
                   /\ FlagValue(c, "-qscale:v") = "9"
            /\ q = "proreshq" =>
                   /\ FlagValue(c, "-c:v") = "prores_ks"
                   /\ FlagValue(c, "-profile:v") = "3"
                   /\ FlagValue(c, "-pix_fmt") = "yuv422p10le"
                   /\ FlagValue(c, "-qscale:v") = "5"
            /\ q = "gif" => FlagValue(c, "-c:v") = ""

---------------------------------------------------------------------------
(* The executor *)

\* C14: each render call launches the encoder at most once; an exit status
\* other than 0 always ends the call by raising to the caller, never by
\* returning the output path; exit status 0 ends it by returning the output
\* path; a call that launched nothing has raised.
C14_ExecutorOutcome ==
    last.outcome # "" =>
        /\ last.launches \in {0, 1}
        /\ (last.launches = 1 /\ last.status # 0) =>
               /\ last.outcome = "raised"
               /\ last.error \in {"CalledProcessError", "RuntimeError"}
               /\ last.result = NoFile
        /\ (last.launches = 1 /\ last.status = 0) =>
               /\ last.outcome = "returned"
               /\ last.result = last.cmd.output
        /\ last.launches = 0 => last.outcome = "raised"

C14_Witness ==
    /\ last.impl = "pkg"
    /\ last.launches = 1
    /\ last.status = 1
    /\ last.outcome = "raised"
    /\ prev.impl = "core"
    /\ prev.status = 0
    /\ prev.outcome = "returned"

---------------------------------------------------------------------------
(* sisr/__init__.py: the read loop of create_video_with_overlay *)

MaxLines == 3

\* a diagnostic line of the encoder: whether it contains "frame=", whether
\* blanks follow the '=' (the encoder right-aligns the counter), whether the
\* text up to the next blank is a number, and that number
Line(frame, padded, numeric, value) ==
    [frame |-> frame, padded |-> padded, numeric |-> numeric, value |-> value]

DiagnosticLines ==
    {Line(FALSE, FALSE, FALSE, 0)}
    \cup {Line(TRUE, padded, numeric, value) :
             padded \in BOOLEAN, numeric \in BOOLEAN, value \in 0..(MaxFrames + 1)}

\* int(output.split(b'frame=')[1].split(b' ')[0]); after blanks the text is
\* empty and int raises, which the bare except swallows
ParseFrame(line) ==
    IF ~line.frame THEN Absent
    ELSE IF line.padded THEN Absent
    ELSE IF ~line.numeric THEN Absent
    ELSE Some(line.value)

\* with tqdm(total=len(image_date_files)): the encoder is started
InitProgress ==
    /\ args = NoArgs
    /\ fs = EmptyFs
    /\ atexit = {}
    /\ alive = TRUE
    /\ ncalls = 0
    /\ last = NoCall
    /\ prev = NoCall
    /\ cli = NoCli
    /\ gui = NoGui
    /\ parsed = NoParse
    /\ prefs = NoPrefs
    /\ \E total \in 1..MaxFrames :
          pbar = [NoPbar EXCEPT !.pc = "reading", !.total = total]

\* the loop reads a line with a frame counter it can parse:
\* pbar.update(frame - pbar.n) moves the bar to that frame
ReadFrameLine ==
    /\ pbar.pc = "reading"
    /\ pbar.read < MaxLines
    /\ \E line \in DiagnosticLines :
          /\ ParseFrame(line).set
          /\ pbar' = [pbar EXCEPT !.before = pbar.n,
                                  !.n = pbar.n + (ParseFrame(line).v - pbar.n),
                                  !.reports = pbar.reports + 1,
                                  !.read = pbar.read + 1]
    /\ UNCHANGED <<args, fs, atexit, alive, ncalls, last, prev, cli, gui, parsed, prefs>>

\* the loop reads any other line and reports nothing
ReadOtherLine ==
    /\ pbar.pc = "reading"
    /\ pbar.read < MaxLines
    /\ \E line \in DiagnosticLines :
          /\ ~ParseFrame(line).set
          /\ pbar' = [pbar EXCEPT !.read = pbar.read + 1]
    /\ UNCHANGED <<args, fs, atexit, alive, ncalls, last, prev, cli, gui, parsed, prefs>>

\* readline returns b'' and the process has ended: the loop breaks
ReadEnd ==
    /\ pbar.pc = "reading"
    /\ pbar' = [pbar EXCEPT !.pc = "done"]
    /\ UNCHANGED <<args, fs, atexit, alive, ncalls, last, prev, cli, gui, parsed, prefs>>

NextProgress == ReadFrameLine \/ ReadOtherLine \/ ReadEnd

SpecProgress == InitProgress /\ [][NextProgress]_vars

\* C15: during one render, for every sequence of diagnostic lines, the frame
\* number reported as progress never decreases from one report to the next
\* and never exceeds the total frame count of the render.
C15_ProgressMonotonic ==
    pbar.reports > 0 => pbar.before <= pbar.n /\ pbar.n <= pbar.total

---------------------------------------------------------------------------
(* The GUI *)

\* the GUI with the options left as constructed: start actions, worker steps
\* and main-thread callbacks in every interleaving
NextGuiRun == StartRender \/ TkCallback \/ Worker

SpecGuiRun == InitGui /\ [][NextGuiRun]_vars

\* the workers that have not yet asked for the start button to be re-enabled
Rendering ==
    {w \in 1..Len(gui.worker) : gui.worker[w].pc \in {"begin", "loop", "finally"}}

\* C16 (as stated): in the GUI, under every interleaving of start actions,
\* worker steps and scheduled main-thread callbacks, at most one render worker
\* is running at any time: a new worker starts only after the previous one
\* has finished.
C16_SingleWorker ==
    Len(gui.worker) <= 1

\* C16 (amended): at most one worker is at work on its directories at any
\* time: a new worker starts only after the previous one has left its loop
\* and scheduled the re-enabling of the start button, and every other live
\* worker has only the last statement of its finally block left to run.
C16_SingleRenderingWorker ==
    /\ Cardinality(Rendering) <= 1
    /\ \A w \in 1..Len(gui.worker) :
          w \notin Rendering => gui.worker[w].pc = "finally2"
    /\ (~gui.start_disabled => Rendering = {})

C16_Witness ==
    /\ Len(gui.worker) = 2
    /\ gui.worker[1].pc = "finally2"
    /\ gui.worker[2].pc = "loop"
    /\ gui.start_disabled

---------------------------------------------------------------------------
(* The exit code of a command-line run *)

\* C17: a run of __main__.main ends with exit code 1, having launched no
\* render, when argument validation fails or no image directory is found; it
\* ends with exit code 0 and reports success exactly when every discovered
\* image directory has been rendered.
C17_ExitCodes ==
    (cli.prog = "main" /\ cli.pc = "exited") =>
        /\ (ValidateArgs(cli.argv) # "" \/ cli.image_dirs = <<>>) =>
               /\ cli.exit_code = 1
               /\ ncalls = 0
               /\ last.launches = 0
        /\ (cli.exit_code = 0 /\ cli.success) <=>
               (/\ ValidateArgs(cli.argv) = ""
                /\ cli.image_dirs # <<>>
                /\ cli.rendered = Len(cli.image_dirs))

---------------------------------------------------------------------------
(* sisr/core.py: parse_resolution *)

MaxLen == 3

\* a string is the sequence of its characters
Chars == {"1", "9", "x", ":", "b", "-"}

Digits == {"0", "1", "2", "3", "4", "5", "6", "7", "8", "9"}

DigitValue(ch) ==
    CASE ch = "0" -> 0 [] ch = "1" -> 1 [] ch = "2" -> 2 [] ch = "3" -> 3
      [] ch = "4" -> 4 [] ch = "5" -> 5 [] ch = "6" -> 6 [] ch = "7" -> 7
      [] ch = "8" -> 8 [] ch = "9" -> 9

Contains(str, ch) == \E k \in 1..Len(str) : str[k] = ch

RECURSIVE Split(_, _)
\* str.split(sep) for a one-character separator
Split(str, sep) ==
    IF ~Contains(str, sep) THEN <<str>>
    ELSE LET k == CHOOSE j \in 1..Len(str) :
                      str[j] = sep /\ \A i \in 1..(j - 1) : str[i] # sep
         IN  <<SubSeq(str, 1, k - 1)>> \o Split(SubSeq(str, k + 1, Len(str)), sep)

RECURSIVE DecimalValue(_)
DecimalValue(digits) ==
    IF digits = <<>> THEN 0
    ELSE 10 * DecimalValue(SubSeq(digits, 1, Len(digits) - 1))
         + DigitValue(digits[Len(digits)])

\* int(text): an optional sign and at least one digit, else ValueError
\* (Absent)
IntOf(text) ==
    LET signed == text # <<>> /\ Head(text) = "-"
        digits == IF signed THEN Tail(text) ELSE text
    IN  IF digits # <<>> /\ \A k \in 1..Len(digits) : digits[k] \in Digits
        THEN Some(IF signed THEN 0 - DecimalValue(digits) ELSE DecimalValue(digits))
        ELSE Absent

ParseResult(outcome, width, height) ==
    [outcome |-> outcome, width |-> width, height |-> height]

\* return None, None
NoResolution == ParseResult("returned", Absent, Absent)

\* try: return int(parts[0]), int(parts[1]) / except ValueError: return
\* None, None; an index outside parts raises IndexError, which is not caught
IntPair(parts) ==
    IF Len(parts) < 2 THEN ParseResult("IndexError", Absent, Absent)
    ELSE IF IntOf(parts[1]).set /\ IntOf(parts[2]).set
    THEN ParseResult("returned", IntOf(parts[1]), IntOf(parts[2]))
    ELSE NoResolution

\* resolution_str.split('x') if 'x' in resolution_str else
\* resolution_str.split(':')
ResolutionParts(str) ==
    IF Contains(str, "x") THEN Split(str, "x") ELSE Split(str, ":")

\* parse_resolution without the test of the number of parts
ParseResolution_NoLengthCheck(is_none, str) ==
    IF is_none \/ str = <<>> THEN NoResolution
    ELSE IntPair(ResolutionParts(str))

\* parse_resolution(resolution_str); is_none says that the argument is None
ParseResolution(is_none, str) ==
    IF is_none \/ str = <<>> THEN NoResolution
    ELSE IF Len(ResolutionParts(str)) # 2 THEN NoResolution
    ELSE IntPair(ResolutionParts(str))

\* the arguments: every string of up to MaxLen characters and the strings
\* of the documentation
ResolutionStrings ==
    UNION {[1..k -> Chars] : k \in 0..MaxLen}
    \cup {<<"1", "9", "2", "0", "x", "1", "0", "8", "0">>,
          <<"3", "8", "4", "0", ":", "2", "1", "6", "0">>,
          <<"b", "o", "g", "u", "s">>}

InitResolution ==
    /\ args = NoArgs
    /\ fs = EmptyFs
    /\ atexit = {}
    /\ alive = TRUE
    /\ ncalls = 0
    /\ last = NoCall
    /\ prev = NoCall
    /\ cli = NoCli
    /\ gui = NoGui
    /\ pbar = NoPbar
    /\ prefs = NoPrefs
    /\ \/ parsed = [NoParse EXCEPT !.is_none = TRUE]
       \/ \E str \in ResolutionStrings : parsed = [NoParse EXCEPT !.input = str]

\* a caller calls parse_resolution
CallParseResolution ==
    /\ parsed.outcome = ""
    /\ LET r == ParseResolution(parsed.is_none, parsed.input)
       IN  parsed' = [parsed EXCEPT !.outcome = r.outcome, !.width = r.width,
                                    !.height = r.height]
    /\ UNCHANGED <<args, fs, atexit, alive, ncalls, last, prev, cli, gui, pbar, prefs>>

NextResolution == CallParseResolution

SpecResolution == InitResolution /\ [][NextResolution]_vars

\* the argument has exactly two parts and both are integers
WellFormedResolution ==
    /\ ~parsed.is_none
    /\ \E sep \in {"x", ":"} :
          /\ sep = "x" \/ ~Contains(parsed.input, "x")
          /\ Len(Split(parsed.input, sep)) = 2
          /\ IntOf(Split(parsed.input, sep)[1]).set
          /\ IntOf(Split(parsed.input, sep)[2]).set

\* C18: parse_resolution never raises: it returns (W, H) as integers when
\* the string, split on 'x' (or on ':' when it holds no 'x'), yields exactly
\* two parts that both parse as integers ('1920x1080' gives (1920, 1080));
\* for every other argument, 'bogus', the empty string and None included, it
\* returns (None, None).
C18_ParseResolution ==
    parsed.outcome # "" =>
        /\ parsed.outcome = "returned"
        /\ parsed.width.set = WellFormedResolution
        /\ parsed.height.set = WellFormedResolution
        /\ WellFormedResolution =>
               \E sep \in {"x", ":"} :
                  /\ Len(Split(parsed.input, sep)) = 2
                  /\ parsed.width = IntOf(Split(parsed.input, sep)[1])
                  /\ parsed.height = IntOf(Split(parsed.input, sep)[2])
        /\ parsed.input = <<"1", "9", "2", "0", "x", "1", "0", "8", "0">> =>
               parsed.width = Some(1920) /\ parsed.height = Some(1080)
        /\ parsed.input = <<"b", "o", "g", "u", "s">> =>
               parsed.width = Absent /\ parsed.height = Absent

C18_Witness ==
    /\ parsed.outcome = "returned"
    /\ parsed.input = <<"1", "9", "2", "0", "x", "1", "0", "8", "0">>
    /\ parsed.width = Some(1920)

---------------------------------------------------------------------------
(* sisr/preferences.py: load_prefs and save_prefs *)

MaxSaves == 2

\* a preference record (a dict) is the set of its <<key, value>> items; the
\* JSON text of the file is the sequence of the members of one object
PrefKeys == <<"input_dir", "output_dir">>

PrefValues == {"/tmp/input", "/foo", None}

PrefRecords ==
    {rec \in SUBSET ({PrefKeys[k] : k \in 1..Len(PrefKeys)} \X PrefValues) :
        \A a \in rec, b \in rec : a[1] = b[1] => a = b}

RECURSIVE JsonDumpFrom(_, _)
\* json.dump(prefs, f): the members of the object, one per key
JsonDumpFrom(rec, k) ==
    IF k > Len(PrefKeys) THEN <<>>
    ELSE (IF \E item \in rec : item[1] = PrefKeys[k]
          THEN <<CHOOSE item \in rec : item[1] = PrefKeys[k]>>
          ELSE <<>>)
         \o JsonDumpFrom(rec, k + 1)

JsonDump(rec) == JsonDumpFrom(rec, 1)

\* json.load(f): the dict of the members; of two members with one key the
\* later one stays
JsonLoad(text) ==
    {text[k] : k \in {j \in 1..Len(text) :
                        \A i \in (j + 1)..Len(text) : text[i][1] # text[j][1]}}

\* load_prefs(): the record of the file, {} when there is no file
LoadPrefs(file) == IF file.exists THEN JsonLoad(file.text) ELSE {}

\* a save that keeps the keys of the file which the new record does not set
SavedText_Merged(file, rec) ==
    JsonDump(rec \cup {item \in LoadPrefs(file) : \A new \in rec : new[1] # item[1]})

\* save_prefs(prefs): open(PREFS_PATH, "w") empties the file, json.dump
\* writes the record
SavedText(file, rec) == JsonDump(rec)

InitPrefs ==
    /\ args = NoArgs
    /\ fs = EmptyFs
    /\ atexit = {}
    /\ alive = TRUE
    /\ ncalls = 0
    /\ last = NoCall
    /\ prev = NoCall
    /\ cli = NoCli
    /\ gui = NoGui
    /\ pbar = NoPbar
    /\ parsed = NoParse
    /\ prefs = NoPrefs

\* a caller calls save_prefs(rec)
CallSavePrefs ==
    /\ prefs.saves < MaxSaves
    /\ \E rec \in PrefRecords :
          prefs' = [prefs EXCEPT !.exists = TRUE,
                                 !.text = SavedText(prefs, rec),
                                 !.saves = prefs.saves + 1,
                                 !.saved = rec,
                                 !.earlier = prefs.saved,
                                 !.fresh = FALSE]
    /\ UNCHANGED <<args, fs, atexit, alive, ncalls, last, prev, cli, gui, pbar, parsed>>

\* a caller calls load_prefs()
CallLoadPrefs ==
    /\ ~prefs.fresh
    /\ prefs' = [prefs EXCEPT !.loaded = LoadPrefs(prefs), !.fresh = TRUE]
    /\ UNCHANGED <<args, fs, atexit, alive, ncalls, last, prev, cli, gui, pbar, parsed>>

NextPrefs == CallSavePrefs \/ CallLoadPrefs

SpecPrefs == InitPrefs /\ [][NextPrefs]_vars

\* C19: after any sequence of save_prefs calls, load_prefs returns exactly
\* the record given to the most recent save_prefs (an earlier record is
\* replaced, not merged), and it returns the empty record when no preference
\* file exists.
C19_PrefsRoundTrip ==
    prefs.fresh =>
        /\ prefs.saves > 0 => prefs.loaded = prefs.saved
        /\ ~prefs.exists => prefs.loaded = {}

C19_Witness ==
    /\ prefs.fresh
    /\ prefs.saves = MaxSaves
    /\ prefs.earlier = {<<"input_dir", "/tmp/input">>}
    /\ prefs.saved = {<<"output_dir", "/foo">>}
    /\ prefs.loaded = prefs.saved

---------------------------------------------------------------------------
(* The crop rectangle of core.create_video_with_overlay *)

\* C20: for every crop mode and every source size, the crop rectangle written
\* into the crop stage lies inside the source frame: both offsets are even
\* and non-negative, x + width and y + height do not exceed the source width
\* and height, and a source wider than 16:9 under an hd_ or uhd_ mode has
\* the vertical offset 0.
C20_CropInsideSource ==
    (last.impl = "core" /\ last.built /\ args.crop_type \in CropModes
        /\ last.cmd.filter # <<>>) =>
        LET crop == last.cmd.filter[1]
            x == crop.p[3]
            y == crop.p[4]
        IN  /\ crop.op = "crop"
            /\ Even(x) /\ Even(y)
            /\ x >= 0 /\ y >= 0
            /\ x + crop.p[1] <= args.size.width
            /\ y + crop.p[2] <= args.size.height
            /\ (/\ StartsWithHd(args.crop_type) \/ StartsWithUhd(args.crop_type)
                /\ args.size.width * HdTargetHeight > args.size.height * HdTargetWidth)
                  => y = 0
---------------------------------------------------------------------------
(* The vertical crop offset of the hd and uhd families *)

\* the position variant a crop mode names
PositionOf(crop_type) ==
    IF crop_type \in {"hd_keep_top", "uhd_keep_top"} THEN "top"
    ELSE IF crop_type \in {"hd_keep_bottom", "uhd_keep_bottom"} THEN "bottom"
    ELSE "center"

\* the offset the variant stands for, between 0 and before - cropped
OffsetOf(position, before, cropped) ==
    IF position = "top" THEN 0
    ELSE IF position = "bottom" THEN before - cropped
    ELSE (before - cropped) \div 2

NotWider(size) == size.width * HdTargetHeight <= size.height * HdTargetWidth

\* C21: for a source that is not wider than 16:9 the vertical crop offset
\* follows the position variant alike in the hd and the uhd family: keep_top
\* gives 0, keep_bottom gives (height before the crop) - (cropped height),
\* center the midpoint; uhd_keep_bottom gives the bottom offset.
C21_VerticalOffsetByVariant ==
    (/\ last.built
     /\ args.crop_type \in HdModes \cup UhdModes
     /\ NotWider(args.size)) =>
        /\ last.impl = "core" =>
              LET crop == last.cmd.filter[1]
              IN  crop.p[4] = OffsetOf(PositionOf(args.crop_type),
                                       args.size.height, crop.p[2])
        /\ last.impl = "pkg" =>
              LET scale == last.cmd.filter[1]
                  crop == last.cmd.filter[2]
              IN  crop.p[4] = OffsetOf(PositionOf(args.crop_type),
                                       scale.p[2], crop.p[2])
---------------------------------------------------------------------------
(* The frame size a filter graph produces *)

\* the size of the frames that leave one stage whose input frames have size s:
\* crop and pad give their width and height, scale=w:h gives w:h,
\* scale=iw/2:ih/2 halves, the other filters keep the size
StageSize(stage, s) ==
    IF stage.op \in {"crop", "pad"} THEN <<stage.p[1], stage.p[2]>>
    ELSE IF stage.op = "scale" /\ stage.text = "iw/2:ih/2"
    THEN <<s[1] \div 2, s[2] \div 2>>
    ELSE IF stage.op = "scale" /\ stage.text = "" THEN <<stage.p[1], stage.p[2]>>
    ELSE IF stage.op = "scale"
    THEN \* force_original_aspect_ratio=decrease: fitted into the box
         IF s[1] * stage.p[2] >= s[2] * stage.p[1]
         THEN <<stage.p[1], (s[2] * stage.p[1]) \div s[1]>>
         ELSE <<(s[1] * stage.p[2]) \div s[2], stage.p[2]>>
    ELSE s

RECURSIVE GraphSize(_, _)
GraphSize(filter, s) ==
    IF filter = <<>> THEN s ELSE GraphSize(Tail(filter), StageSize(Head(filter), s))

\* C22: for every source size the filter graph built for an hd_ crop mode
\* produces frames of exactly 1920x1080 and the one built for a uhd_ crop
\* mode frames of exactly 3840x2160.
C22_TargetFrameSize ==
    (last.built /\ args.crop_type \in HdModes \cup UhdModes) =>
        GraphSize(last.cmd.filter, <<args.size.width, args.size.height>>)
            = IF args.crop_type \in HdModes
              THEN <<HdTargetWidth, HdTargetHeight>>
              ELSE <<UhdTargetWidth, UhdTargetHeight>>
---------------------------------------------------------------------------
(* The text each frame shows *)

\* the display texts of the frames: absent, empty, or a date
OverlayDates == {None, "", "Monday"}

\* direct calls with an overlay mode, on frame lists that carry every
\* combination of display texts
OverlayArgSets ==
    [image_date_files :
        UNION {{[k \in 1..n |-> Frame(k - 1, d[k])] : d \in [1..n -> OverlayDates]}
                  : n \in 1..MaxFrames},
     output_file : {File("out", <<"shoot1">>, ".mp4")}, fps : {30},
     crop_type : {None, "instagram"}, overlay_type : OverlayModes,
     quality : {"default"}, size : {CliImageSize}]

InitOverlay ==
    /\ args \in OverlayArgSets
    /\ fs = EmptyFs
    /\ atexit = {}
    /\ alive = TRUE
    /\ HelpersIdle
    /\ ncalls = 0
    /\ last = NoCall
    /\ prev = NoCall
    /\ cli = NoCli
    /\ gui = NoGui

SpecOverlay == InitOverlay /\ [][Next]_vars

\* the text frame i is to show
DisplayText(overlay_type, frames, i) ==
    IF overlay_type = "frame" THEN Content("FRAME: ", i)
    ELSE IF frames[i + 1].date \in {None, ""} THEN Content("No date available", -1)
    ELSE Content(frames[i + 1].date, -1)

\* C23: frame i shows only frame i's text: for every i in 0..N-1 one draw
\* stage is enabled on output frame i, it reads the text resource written for
\* frame i, whose content is that frame's display text, 'No date available'
\* when the text is absent or empty (date mode), or 'FRAME: i' with i counted
\* from zero (frame mode); one resource is written per frame and no two
\* frames share one.
C23_FrameShowsOwnText ==
    CoreOverlayRendered =>
        LET frames == args.image_date_files
            n == Len(frames)
            draw == SelectSeq(last.cmd.filter, IsDrawStage)
            on(i) == {k \in 1..Len(draw) : draw[k].enable = i}
            stage(i) == draw[CHOOSE k \in on(i) : TRUE]
        IN  /\ \A i \in 0..(n - 1) :
                  /\ Cardinality(on(i)) = 1
                  /\ {w.content : w \in {v \in last.tmpfiles : v.file = stage(i).textfile}}
                        = {DisplayText(args.overlay_type, frames, i)}
            /\ Cardinality({w.file : w \in last.tmpfiles}) = n
            /\ Cardinality(last.tmpfiles) = n
            /\ \A j, k \in 1..Len(draw) : j # k => draw[j].textfile # draw[k].textfile

C23_Witness ==
    /\ CoreOverlayRendered
    /\ args.overlay_type = "date"
    /\ Len(args.image_date_files) = MaxFrames
    /\ args.image_date_files[1].date = "Monday"
    /\ args.image_date_files[2].date = ""
    /\ args.image_date_files[3].date = None
    /\ Cardinality(last.tmpfiles) = MaxFrames
---------------------------------------------------------------------------
(* The filter-graph argument of core.create_video_with_overlay *)

\* C24: for every call that passes validation, the command has a filter
\* graph exactly when a crop mode or an overlay mode is requested; a command
\* with a filter graph maps [v_out] and nothing else, [v_out] is the output of
\* the last stage, and with a crop mode the first stage is the crop stage
\* reading [0:v] with the computed width:height:x:y; a command without a
\* filter graph maps no filter label.
C24_FilterGraphPresence ==
    (last.impl = "core" /\ last.built) =>
        LET f == last.cmd.filter
            g == CoreGeometry(args.crop_type, args.size.width, args.size.height)
        IN  /\ (f # <<>>) <=> (Truthy(args.crop_type) \/ Truthy(args.overlay_type))
            /\ f # <<>> =>
                  /\ last.cmd.map = "[v_out]"
                  /\ f[Len(f)].out = VOut
                  /\ Truthy(args.crop_type) =>
                        /\ f[1].op = "crop"
                        /\ f[1].src = RawInput
                        /\ f[1].p = <<g.width, g.height, g.x, g.y>>
            /\ f = <<>> => last.cmd.map = ""
---------------------------------------------------------------------------
(* The filter graph of quality gif *)

IsHalvingScale(s) == s.op = "scale" /\ s.text = "iw/2:ih/2"

\* C25: for quality gif, with any crop and overlay setting, the filter graph
\* has a halving scale stage after the crop stage (if any) and before the
\* overlay stages (if any), and ends with the palette-generation /
\* palette-application fork-join, applied after all other stages.
C25_GifGraph ==
    (last.built /\ args.quality = "gif") =>
        LET f == last.cmd.filter
            n == Len(f)
        IN  /\ n >= 4
            /\ f[n - 2].op = "split"
            /\ f[n - 1].op = "palettegen"
            /\ f[n].op = "paletteuse"
            /\ \E h \in 1..(n - 3) :
                  /\ IsHalvingScale(f[h])
                  /\ \A k \in 1..(n - 3) :
                        /\ f[k].op \in {"crop", "pad"} => k < h
                        /\ f[k].op = "drawtext" => k > h
---------------------------------------------------------------------------
(* A text resource that cannot be written *)

\* core.create_video_with_overlay when open() or f.write() raises OSError at
\* frame k of the loop that writes the text resources: the files of the
\* frames before k are written, the file of frame k exists (empty) when it
\* was the write that failed, and the exception leaves the function from
\* inside the loop, before atexit.register(cleanup) is reached
CoreCallWriteFails(a, kw, temp_dir, k, opened) ==
    LET frames == a.image_date_files
        num_frames == Len(frames)
        written == {Written(CoreTextFile(a.overlay_type, temp_dir, i, num_frames),
                            CoreTextContent(a.overlay_type, frames, i))
                       : i \in 0..(k - 1)}
        partial == IF opened
                   THEN {Written(CoreTextFile(a.overlay_type, temp_dir, k, num_frames),
                                 Content("", -1))}
                   ELSE {}
    IN  IF ~(kw \subseteq CoreParams) THEN Raised("core", "TypeError")
        ELSE IF FpsRejected(a.fps) THEN Raised("core", "ValueError")
        ELSE IF frames = <<>> THEN Raised("core", "ValueError")
        ELSE [Raised("core", "OSError") EXCEPT
                 !.outdirs = {a.output_file.dir},
                 !.tmpdirs = {temp_dir},
                 !.tmpfiles = written \cup partial]

\* a caller calls sisr.core.create_video_with_overlay(**args) with an overlay
\* mode and the file system refuses the text resource of frame k
CallCoreWriteFails ==
    /\ alive
    /\ cli.prog = "none"
    /\ ncalls < MaxCalls
    /\ args.overlay_type \in OverlayModes
    /\ \E temp_dir \in FreeTmpDirs("/tmp"),
          k \in 0..(Len(args.image_date_files) - 1), opened \in BOOLEAN :
          Effects(CoreCallWriteFails(args, CoreParams, temp_dir, k, opened))
    /\ UNCHANGED <<args, alive, cli, gui, helpers>>

NextWriteFails == Next \/ CallCoreWriteFails

SpecWriteFails == InitOverlay /\ [][NextWriteFails]_vars

\* C26: if writing the text resource of frame k fails, the render call fails
\* with an error, no encoder is launched, and the temporary directory with
\* the k resources already written is removed, at the latest by the cleanup
\* registered for that render.
C26_WriteFailureCleansUp ==
    (last.impl = "core" /\ last.error = "OSError") =>
        /\ last.outcome = "raised"
        /\ last.launches = 0
        /\ last.tmpdirs \subseteq (last.removed \cup last.registered)
        /\ ~alive => last.tmpdirs \cap fs.dirs = {}
---------------------------------------------------------------------------
(* sisr/__init__.py: the encoder process, its two pipes and the read loop *)

\* the number of lines a pipe holds before a write to it blocks
PipeCap == 2

\* the lines the encoder writes to its diagnostic stream
EncoderLines ==
    {Line(FALSE, FALSE, FALSE, 0)}
    \cup {Line(TRUE, FALSE, TRUE, value) : value \in 1..MaxFrames}

\* subprocess.Popen(cmd, stdout=PIPE, stderr=PIPE): the encoder runs with
\* some output still to write to each of its two streams
InitReadLoop ==
    /\ args = NoArgs
    /\ fs = EmptyFs
    /\ atexit = {}
    /\ alive = TRUE
    /\ ncalls = 0
    /\ last = NoCall
    /\ prev = NoCall
    /\ cli = NoCli
    /\ gui = NoGui
    /\ parsed = NoParse
    /\ prefs = NoPrefs
    /\ \E out \in 0..(PipeCap + 1), err \in 0..MaxLines :
          pbar = [NoPbar EXCEPT !.pc = "reading", !.total = MaxFrames,
                                !.proc = "running", !.to_stdout = out,
                                !.to_stderr = err]

\* the encoder writes a line to stderr; the write blocks while the pipe is full
EncoderWritesStderr ==
    /\ pbar.proc = "running"
    /\ pbar.to_stderr > 0
    /\ Len(pbar.err_pipe) < PipeCap
    /\ \E line \in EncoderLines :
          pbar' = [pbar EXCEPT !.err_pipe = Append(pbar.err_pipe, line),
                               !.to_stderr = pbar.to_stderr - 1]
    /\ UNCHANGED <<args, fs, atexit, alive, ncalls, last, prev, cli, gui, parsed, prefs>>

\* the encoder writes to stdout, the pipe nothing reads; the write blocks
\* while the pipe is full
EncoderWritesStdout ==
    /\ pbar.proc = "running"
    /\ pbar.to_stdout > 0
    /\ pbar.out_pipe < PipeCap
    /\ pbar' = [pbar EXCEPT !.out_pipe = pbar.out_pipe + 1,
                            !.to_stdout = pbar.to_stdout - 1]
    /\ UNCHANGED <<args, fs, atexit, alive, ncalls, last, prev, cli, gui, parsed, prefs>>

\* the encoder has written all its output and closes its streams
EncoderClosesStreams ==
    /\ pbar.proc = "running"
    /\ pbar.to_stdout = 0
    /\ pbar.to_stderr = 0
    /\ pbar' = [pbar EXCEPT !.proc = "closed"]
    /\ UNCHANGED <<args, fs, atexit, alive, ncalls, last, prev, cli, gui, parsed, prefs>>

\* the encoder process ends
EncoderExits ==
    /\ pbar.proc = "closed"
    /\ pbar' = [pbar EXCEPT !.proc = "exited"]
    /\ UNCHANGED <<args, fs, atexit, alive, ncalls, last, prev, cli, gui, parsed, prefs>>

\* one turn of the loop whose process.stderr.readline() returns a line: a
\* frame counter that parses moves the bar, any other line is dropped
LoopReadsLine ==
    /\ pbar.pc = "reading"
    /\ pbar.err_pipe # <<>>
    /\ LET frame == ParseFrame(Head(pbar.err_pipe))
       IN  pbar' = [pbar EXCEPT !.err_pipe = Tail(pbar.err_pipe),
                                !.before = IF frame.set THEN pbar.n ELSE pbar.before,
                                !.n = IF frame.set THEN pbar.n + (frame.v - pbar.n)
                                      ELSE pbar.n,
                                !.reports = pbar.reports + (IF frame.set THEN 1 ELSE 0),
                                !.read = pbar.read + 1]
    /\ UNCHANGED <<args, fs, atexit, alive, ncalls, last, prev, cli, gui, parsed, prefs>>

\* readline() returns b'' at end of file; the loop breaks when poll() shows
\* that the process has ended, and turns again without effect while it has not.
\* With an empty pipe whose write end is open, readline() does not return.
LoopSeesEof ==
    /\ pbar.pc = "reading"
    /\ pbar.err_pipe = <<>>
    /\ pbar.proc = "exited"
    /\ pbar' = [pbar EXCEPT !.pc = "done"]
    /\ UNCHANGED <<args, fs, atexit, alive, ncalls, last, prev, cli, gui, parsed, prefs>>

Encoder == EncoderWritesStderr \/ EncoderWritesStdout \/ EncoderClosesStreams \/ EncoderExits

ReadLoop == LoopReadsLine \/ LoopSeesEof

NextReadLoop == Encoder \/ ReadLoop

\* the operating system runs the encoder whenever it can take a step, and
\* the thread of the loop whenever its read can return
SpecReadLoop ==
    InitReadLoop /\ [][NextReadLoop]_vars /\ WF_vars(Encoder) /\ WF_vars(ReadLoop)

\* C27: the read loop over the encoder's diagnostic stream eventually ends,
\* for every interleaving of the encoder's output on its two streams with the
\* reads, and it ends only when the diagnostic stream is at end of file and
\* the process has ended; it never waits for ever on a read while the encoder
\* is itself blocked.
C27_ReadLoopTerminates ==
    /\ [](pbar.pc = "done" => pbar.err_pipe = <<>> /\ pbar.proc = "exited")
    /\ <>(pbar.pc = "done")
---------------------------------------------------------------------------
(* The front ends on directories whose file names vary *)

\* the image files of a directory, in the order of the sorted file names:
\* a padded sequence, one with a gap, one behind a file without a number, one
\* that changes its prefix, one numbered without padding, one without '_',
\* one whose prefix holds a '_', and a sequence with a gap beside a second
\* prefix
NameShapes ==
    {<<ImageName("img", "_", 0, 4, ".jpg"), ImageName("img", "_", 1, 4, ".jpg")>>,
     <<ImageName("img", "_", 0, 4, ".jpg"), ImageName("img", "_", 2, 4, ".jpg")>>,
     <<ImageName("cover", "", -1, 0, ".jpg"), ImageName("img", "_", 0, 4, ".jpg")>>,
     <<ImageName("img", "_", 0, 4, ".jpg"), ImageName("pic", "_", 1, 4, ".jpg")>>,
     <<ImageName("img", "_", 10, 2, ".jpg"), ImageName("img", "_", 9, 1, ".jpg")>>,
     <<ImageName("img", "", 0, 4, ".jpg"), ImageName("img", "", 1, 4, ".jpg")>>,
     <<ImageName("my_img", "_", 0, 4, ".jpg"), ImageName("my_img", "_", 1, 4, ".jpg")>>,
     <<ImageName("img", "_", 0, 4, ".jpg"), ImageName("img", "_", 2, 4, ".jpg"),
       ImageName("pic", "_", 0, 4, ".jpg")>>}

NamedDirLists ==
    UNION {{[k \in 1..n |-> NamedDir(DirNames[k], shape[k])] : shape \in [1..n -> NameShapes]}
              : n \in 1..MaxDirs}

\* python -m sisr on such directories, or the window opened on them
InitNames ==
    /\ args = NoArgs
    /\ fs = EmptyFs
    /\ atexit = {}
    /\ alive = TRUE
    /\ HelpersIdle
    /\ ncalls = 0
    /\ last = NoCall
    /\ prev = NoCall
    /\ \E image_dirs \in NamedDirLists :
          \/ /\ gui = NoGui
             /\ \E overlay \in {None, "date"} :
                   cli = [NoCli EXCEPT !.prog = "main",
                                       !.argv = [NoArgv EXCEPT !.input_is_dir = TRUE,
                                                               !.fps = 30,
                                                               !.overlay = overlay],
                                       !.image_dirs = image_dirs, !.pc = "start"]
          \/ /\ cli = NoCli
             /\ gui = [NoGui EXCEPT !.open = TRUE, !.input_dir = TRUE,
                                    !.output_dir = TRUE, !.image_dirs = image_dirs]

NextNames ==
    \/ MainStart
    \/ MainRenderDir
    \/ MainFinish
    \/ StartRender
    \/ TkCallback
    \/ Worker

SpecNames == InitNames /\ [][NextNames]_vars

\* the files of a frame list are one strictly consecutive numeric sequence:
\* every name holds a number, the names differ in the number only, and the
\* numbers, in list order, go up by one
OneSequence(frames) ==
    /\ \A k \in 1..Len(frames) :
          /\ HasNumber(frames[k])
          /\ frames[k].path.prefix = frames[1].path.prefix
          /\ frames[k].path.sep = frames[1].path.sep
          /\ frames[k].path.ext = frames[1].path.ext
          /\ frames[k].path.num = frames[1].path.num + k - 1

\* a front end has called the renderer
RendererCalled == last.outcome # "" /\ (cli.request.issued \/ gui.request.issued)

\* C28: in both front ends a directory whose image files are not one strictly
\* consecutive numeric sequence is never passed to the renderer.
C28_NonSequentialNeverRendered ==
    RendererCalled => OneSequence(args.image_date_files)

\* the file name the pattern <prefix>_%0<pad>d<ext> yields for number n is
\* the name of path: n is written in at least pad digits
PatternMatches(pattern, path, n) ==
    /\ path.dir = pattern.dir
    /\ path.prefix = pattern.prefix
    /\ path.sep = "_"
    /\ path.num = n
    /\ path.pad = (IF NumDigits(n) > pattern.pad THEN NumDigits(n) ELSE pattern.pad)
    /\ path.ext = pattern.ext

\* C29: for every frame list that a front end's sequence check accepts and
\* passes to the renderer, the renderer does not fail while it builds the
\* numbered pattern from the first file name, and the pattern matches every
\* file of the list, in list order.
C29_PatternMatchesAcceptedList ==
    RendererCalled =>
        LET frames == args.image_date_files
            first == frames[1].path
        IN  /\ ~CorePatternFails(first)
            /\ \A k \in 1..Len(frames) :
                  PatternMatches(CoreInputPattern(first), frames[k].path,
                                 first.num + k - 1)
---------------------------------------------------------------------------
(* The start button after a render *)

\* the main loop of Tk runs the callbacks scheduled with after(0, ...) and the
\* worker threads are scheduled: neither waits for ever while it can step
SpecGuiLive ==
    InitGui /\ [][NextGuiRun]_vars /\ WF_vars(TkCallback) /\ WF_vars(Worker)

EnablePending == \E k \in 1..Len(gui.queue) : gui.queue[k] = EnableStart

\* the window at rest: the button enabled, the progress at 0, no worker and
\* no callback left
AtRest ==
    /\ ~gui.start_disabled
    /\ gui.progress_var = 0
    /\ gui.worker = <<>>
    /\ gui.queue = <<>>

\* C30: after every accepted start action the start button is eventually
\* re-enabled and the progress value reset to 0, on every exit path of the
\* render worker; the button is never left disabled when no worker is
\* running and no re-enable callback is pending.
C30_ButtonReenabled ==
    /\ [](gui.start_disabled /\ Rendering = {} => EnablePending)
    /\ (gui.start_disabled ~> ~gui.start_disabled)
    /\ (gui.start_disabled ~> AtRest)

\* a worker whose renderer raised has ended and the window is at rest again
C30_Witness ==
    /\ AtRest
    /\ gui.starts > 0
    /\ gui.request.issued
    /\ last.outcome = "raised"
    /\ gui.status_var = "Error during rendering"

====
